---------------------------- MODULE Spec2Model ----------------------------
(***************************************************************************)
(* A model of dash, a distributed shell-pipeline planner and executor.     *)
(*                                                                         *)
(*   Spec       the client's run_command (dash/src/runtime/new_client.rs): *)
(*              split, stream setup threads, dispatch threads, and the     *)
(*              redirect threads of the client partition.                  *)
(*   SpecWrite  WriteNode::run_redirection (dash/src/graph/write.rs).      *)
(*   SpecShell  the shell frontend (shell/src/shellparser/shellparser.rs): *)
(*              ShellSplit::new, convert_into_shell_graph and              *)
(*              convert_into_program.                                      *)
(*   SpecMerge  ShellGraph::add_node, add_link and merge on two graphs.    *)
(*   SpecViz    the visualization binary (shell/src/bin/viz2.rs): main and *)
(*              run_viz.                                                   *)
(*   SpecNode   single calls on a ReadNode and a WriteNode: add_stdout,    *)
(*              replace_pipe_with_net and redirect.                        *)
(*   SpecStat   the client's stat_files (new_client.rs): one thread for    *)
(*              each requested location, joined in spawn order.            *)
(***************************************************************************)
EXTENDS Integers, Sequences, FiniteSets, TLC

VARIABLES
    \* ---- run_command (Spec) ----
    pc,          \* position of the thread that runs run_command
    loc,         \* the Location of every node of the program
    conflict,    \* whether split_by_machine fails on the program
    setup,       \* one record per stream-setup thread (keyed by NetStream)
    shared_map,  \* the client's SharedStreamMap: the NetStreams it holds a socket for
    inserted,    \* the NetStreams a setup thread has inserted a socket under
    removedBy,   \* per NetStream, the client nodes whose redirect removed its socket
    exec,        \* one record per partition execution thread (keyed by Location)
    node,        \* state of the redirect thread of every node of the client partition
    pipes,       \* the client's SharedPipeMap: the HandleIdentifiers it holds
    result,      \* what run_command returned
    \* ---- WriteNode::run_redirection (SpecWrite) ----
    wn,          \* the WriteNode: its stdin and output stream lists
    wmaps,       \* the SharedPipeMap and SharedStreamMap handed to run_redirection
    wfail,       \* the copy (1-based, in loop order) at which I/O fails; 0: never
    wout,        \* what run_redirection returned and did
    wdata,       \* how many bytes every stdin stream delivers
    wfile,       \* the content of the output file before and after run_redirection
    \* ---- shell frontend (SpecShell) ----
    cmdline,     \* the command line, as the tokens shellwords::split yields
    hashOrder,   \* the iteration order of the HashMaps of this run
    stage,       \* how far parse_command has got
    shellsplit,  \* Result<ShellSplit>
    shellgraph,  \* Result<ShellGraph>
    program,     \* Result<Program>
    \* ---- ShellGraph::merge (SpecMerge) ----
    mrecv,       \* the receiver graph (self)
    mother,      \* the incoming graph (other)
    mlink,       \* the connection link handed to merge
    mbefore,     \* the receiver as it was when merge was called
    mres,        \* "building", or what merge returned: "ok" or "err"
    \* ---- viz2's main (SpecViz) ----
    vizstage,    \* "args", "calls" or "exited"
    vizidx,      \* the run_viz call of main that is next
    vizparse,    \* how many commands failed to parse or plan so far
    vizout,      \* how many parsed commands failed to be written or rendered
    vizexit,     \* the exit status of the process, once it has exited
    \* ---- calls on one ReadNode and one WriteNode (SpecNode) ----
    nd_read,     \* the ReadNode: its node_id and its stdout stream
    nd_write,    \* the WriteNode: its node_id, stdin and output lists
    nd_maps,     \* the SharedPipeMap and the SharedStreamMap
    nd_call,     \* the last call and its arguments
    nd_before,   \* the two nodes and the maps as they were before the last call
    nd_res,      \* what the last call returned: "ok" or "err" ("none": no call yet)
    \* ---- stat_files (SpecStat) ----
    st_pc,       \* position of the thread that runs stat_files
    st_order,    \* the requested locations, in the order the HashMap yields them
    st_thread,   \* per location, the state of its size request thread
    st_next,     \* the handle (index into st_order) that is joined next
    st_results,  \* the locations `results` has an entry for
    st_ret       \* what stat_files returned: the Result and the map

rtVars ==
    <<pc, loc, conflict, setup, shared_map, inserted, removedBy, exec, node, pipes,
      result>>
wnVars == <<wn, wmaps, wfail, wout, wdata, wfile>>
shVars == <<cmdline, hashOrder, stage, shellsplit, shellgraph, program>>
mgVars == <<mrecv, mother, mlink, mbefore, mres>>
vzVars == <<vizstage, vizidx, vizparse, vizout, vizexit>>
ndVars == <<nd_read, nd_write, nd_maps, nd_call, nd_before, nd_res>>
stVars == <<st_pc, st_order, st_thread, st_next, st_results, st_ret>>
vars == <<rtVars, wnVars, shVars, mgVars, vzVars, ndVars, stVars>>

(***************************************************************************)
(* Bounds of the model.                                                    *)
(***************************************************************************)
MaxServers == 2

MaxStdin == 2

MaxOutputs == 2

\* the most bytes a stream delivers, and the most a file holds beforehand
MaxBytes == 2

-----------------------------------------------------------------------------
(***************************************************************************)
(* Locations and streams (dash::graph::Location, dash::graph::stream).     *)
(***************************************************************************)
Client == [tag |-> "Client", ip |-> 0]

Server(i) == [tag |-> "Server", ip |-> i]

NoLoc == [tag |-> "None", ip |-> 0]

Locations == {Client} \cup {Server(i) : i \in 1..MaxServers}

\* DashStream::Pipe(PipeStream { left, right, output_type })
PipeStream(l, r, io) ==
    [kind |-> "Pipe", left |-> l, right |-> r, io |-> io,
     snd |-> NoLoc, rcv |-> NoLoc, name |-> "", mode |-> ""]

\* DashStream::Tcp(NetStream): the pipe's triple plus the two sides
NetStream(l, r, io, s, d) ==
    [kind |-> "Tcp", left |-> l, right |-> r, io |-> io,
     snd |-> s, rcv |-> d, name |-> "", mode |-> ""]

\* DashStream::File(FileStream { name, location, mode })
FileStream(f, where, m) ==
    [kind |-> "File", left |-> 0, right |-> 0, io |-> "",
     snd |-> where, rcv |-> NoLoc, name |-> f, mode |-> m]

StdoutStream ==
    [kind |-> "Stdout", left |-> 0, right |-> 0, io |-> "",
     snd |-> NoLoc, rcv |-> NoLoc, name |-> "", mode |-> ""]

StderrStream ==
    [kind |-> "Stderr", left |-> 0, right |-> 0, io |-> "",
     snd |-> NoLoc, rcv |-> NoLoc, name |-> "", mode |-> ""]

\* HandleIdentifier::new(prog_id, node_id, iotype); one program, so no prog_id
HandleIdentifier(node_id, io) == <<node_id, io>>


-----------------------------------------------------------------------------
(***************************************************************************)
(* The shared handle maps.  A map is the set of keys it holds a handle     *)
(* under; remove(key) takes the handle out and fails when there is none.   *)
(***************************************************************************)
MapHas(map, key) == key \in map

MapRemove(map, key) == map \ {key}

MapInsert(map, key) == map \cup {key}

(***************************************************************************)
(* What a redirect returns: its Result, the two maps as it leaves them,    *)
(* the keys it removed (in order) and the copies it completed.             *)
(***************************************************************************)
Redirected(res, p, n, rn, rp, cp) ==
    [res |-> res, pipes |-> p, net |-> n, removedNet |-> rn, removedPipes |-> rp,
     copied |-> cp]

(***************************************************************************)
(* ReadNode::redirect (read2.rs).  self = [node_id, stdout]; file_ok: the  *)
(* input file opens; copy_ok: the copy succeeds.                           *)
(***************************************************************************)
ReadNode_redirect_keep(self, p, n, file_ok, copy_ok) ==
    \* as ReadNode_redirect, but the handle is looked up and left in its map
    IF ~file_ok THEN Redirected("err", p, n, <<>>, <<>>, {})
    ELSE IF self.stdout.kind = "Tcp"
    THEN IF ~MapHas(n, self.stdout) THEN Redirected("err", p, n, <<>>, <<>>, {})
         ELSE Redirected(IF copy_ok THEN "ok" ELSE "err", p, n, <<>>, <<>>,
                         IF copy_ok THEN {<<1, 1>>} ELSE {})
    ELSE IF self.stdout.kind = "Pipe"
    THEN LET h == HandleIdentifier(self.node_id, self.stdout.io)
         IN  IF ~MapHas(p, h) THEN Redirected("err", p, n, <<>>, <<>>, {})
             ELSE Redirected(IF copy_ok THEN "ok" ELSE "err", p, n,
                             <<>>, <<>>, IF copy_ok THEN {<<1, 1>>} ELSE {})
    ELSE Redirected("err", p, n, <<>>, <<>>, {})

ReadNode_redirect_reader_key(self, p, n, file_ok, copy_ok) ==
    \* as ReadNode_redirect, but the pipe end is looked up under the id of the
    \* node that reads the pipe
    IF ~file_ok THEN Redirected("err", p, n, <<>>, <<>>, {})
    ELSE IF self.stdout.kind = "Tcp"
    THEN IF ~MapHas(n, self.stdout) THEN Redirected("err", p, n, <<>>, <<>>, {})
         ELSE Redirected(IF copy_ok THEN "ok" ELSE "err", p,
                         MapRemove(n, self.stdout), <<self.stdout>>, <<>>,
                         IF copy_ok THEN {<<1, 1>>} ELSE {})
    ELSE IF self.stdout.kind = "Pipe"
    THEN LET h == HandleIdentifier(self.stdout.right, self.stdout.io)
         IN  IF ~MapHas(p, h) THEN Redirected("err", p, n, <<>>, <<>>, {})
             ELSE Redirected(IF copy_ok THEN "ok" ELSE "err", MapRemove(p, h), n,
                             <<>>, <<h>>, IF copy_ok THEN {<<1, 1>>} ELSE {})
    ELSE Redirected("err", p, n, <<>>, <<>>, {})

ReadNode_redirect(self, p, n, file_ok, copy_ok) ==
    IF ~file_ok THEN Redirected("err", p, n, <<>>, <<>>, {})
    ELSE IF self.stdout.kind = "Tcp"
    THEN IF ~MapHas(n, self.stdout) THEN Redirected("err", p, n, <<>>, <<>>, {})
         ELSE Redirected(IF copy_ok THEN "ok" ELSE "err", p,
                         MapRemove(n, self.stdout), <<self.stdout>>, <<>>,
                         IF copy_ok THEN {<<1, 1>>} ELSE {})
    ELSE IF self.stdout.kind = "Pipe"
    THEN LET h == HandleIdentifier(self.node_id, self.stdout.io)
         IN  IF ~MapHas(p, h) THEN Redirected("err", p, n, <<>>, <<>>, {})
             ELSE Redirected(IF copy_ok THEN "ok" ELSE "err", MapRemove(p, h), n,
                             <<>>, <<h>>, IF copy_ok THEN {<<1, 1>>} ELSE {})
    ELSE Redirected("err", p, n, <<>>, <<>>, {})

(***************************************************************************)
(* WriteNode::run_redirection (write.rs).  self = [node_id, stdin,         *)
(* output].  The loops run over the outputs (outer) and the stdin streams  *)
(* (inner); iteration k handles stdin[j] and output[i].  fail_at is the    *)
(* iteration whose file open or copy fails (0: none does).                 *)
(***************************************************************************)
IsWritable(output_stream) == output_stream.kind \in {"File", "Stdout", "Stderr"}

WriteNode_iteration(self, k, fail_at, acc) ==
    LET nin == Len(self.stdin)
        i == ((k - 1) \div nin) + 1
        j == ((k - 1) % nin) + 1
        stream == self.stdin[j]
        output_stream == self.output[i]
        io_ok == k # fail_at
        after(p, n, rn, rp) ==
            IF IsWritable(output_stream) /\ io_ok
            THEN Redirected("running", p, n, rn, rp, acc.copied \cup {<<j, i>>})
            ELSE Redirected("err", p, n, rn, rp, acc.copied)
    IN  IF stream.kind = "Tcp"
        THEN IF ~MapHas(acc.net, stream) THEN [acc EXCEPT !.res = "err"]
             ELSE after(acc.pipes, MapRemove(acc.net, stream),
                        Append(acc.removedNet, stream), acc.removedPipes)
        ELSE IF stream.kind = "Pipe"
        THEN LET h == HandleIdentifier(self.node_id, stream.io)
             IN  IF ~MapHas(acc.pipes, h) THEN [acc EXCEPT !.res = "err"]
                 ELSE after(MapRemove(acc.pipes, h), acc.net, acc.removedNet,
                            Append(acc.removedPipes, h))
        ELSE [acc EXCEPT !.res = "err"]

RECURSIVE WriteNode_loop(_, _, _, _)
WriteNode_loop(self, k, fail_at, acc) ==
    IF acc.res = "err" THEN acc
    ELSE IF k > Len(self.stdin) * Len(self.output) THEN [acc EXCEPT !.res = "ok"]
    ELSE WriteNode_loop(self, k + 1, fail_at, WriteNode_iteration(self, k, fail_at, acc))

WriteNode_run_redirection(self, p, n, fail_at) ==
    WriteNode_loop(self, 1, fail_at, Redirected("running", p, n, <<>>, <<>>, {}))

(***************************************************************************)
(* CommandNode's redirect, whose source is not part of the files modelled: *)
(* after the specification's section 4.3 it takes the socket of each of    *)
(* its Tcp streams out of the SharedStreamMap (HandleMissing when there is *)
(* none), copies, and waits for the child (child_ok: it exits with 0).     *)
(***************************************************************************)
RECURSIVE CommandNode_take(_, _, _)
CommandNode_take(streams, k, acc) ==
    IF acc.res = "err" \/ k > Len(streams) THEN acc
    ELSE IF streams[k].kind # "Tcp" THEN CommandNode_take(streams, k + 1, acc)
    ELSE IF ~MapHas(acc.net, streams[k]) THEN [acc EXCEPT !.res = "err"]
    ELSE CommandNode_take(streams, k + 1,
            [acc EXCEPT !.net = MapRemove(acc.net, streams[k]),
                        !.removedNet = Append(acc.removedNet, streams[k])])

CommandNode_redirect(self, p, n, child_ok) ==
    LET acc == CommandNode_take(self.stdin \o self.stdout \o self.stderr, 1,
                                Redirected("running", p, n, <<>>, <<>>, {}))
    IN  IF acc.res = "err" THEN acc
        ELSE [acc EXCEPT !.res = IF child_ok THEN "ok" ELSE "err"]

-----------------------------------------------------------------------------
(***************************************************************************)
(* The program handed to run_command: a ReadNode (1) feeding a CommandNode *)
(* (2) feeding a WriteNode (3), each at a Location of its own.  loc is the *)
(* placement split_by_machine arrives at.                                  *)
(***************************************************************************)
Nodes == {1, 2, 3}

Edges == {<<1, 2>>, <<2, 3>>}

Kind(n) == CASE n = 1 -> "Read" [] n = 2 -> "Cmd" [] OTHER -> "Write"

\* Servers are told apart by their ip only: placements that differ by a
\* renaming of the servers are the same, and one of each is kept (the
\* servers appear in the order 1, 2, ... along the pipeline).
CanonicalPlacement(l) ==
    \A n \in Nodes :
        l[n].tag = "Server" =>
            \A i \in 1..(l[n].ip - 1) : \E m \in Nodes : m < n /\ l[m] = Server(i)

Placements == {l \in [Nodes -> Locations] : CanonicalPlacement(l)}

(***************************************************************************)
(* Program::split_by_machine and Program::get_outward_streams, whose       *)
(* source is not part of the files modelled: after the specification's     *)
(* section 4.2, an edge whose endpoints differ in location becomes a       *)
(* NetStream whose sending side is the left node's location and whose      *)
(* receiving side is the right node's; the partitions are the locations    *)
(* that hold a node; the outward streams of a partition are the NetStreams *)
(* whose sending side is its location.                                     *)
(***************************************************************************)
EdgeStream(l, e) ==
    IF l[e[1]] # l[e[2]]
    THEN NetStream(e[1], e[2], "Stdout", l[e[1]], l[e[2]])
    ELSE PipeStream(e[1], e[2], "Stdout")

split_by_machine(l) == {l[n] : n \in Nodes}

NetStreams(l) == {EdgeStream(l, e) : e \in {d \in Edges : l[d[1]] # l[d[2]]}}

get_outward_streams(l, where) == {s \in NetStreams(l) : s.snd = where}

\* the nodes of the partition at `where`, with the stream lists they hold
NodesAt(l, where) == {n \in Nodes : l[n] = where}

ReadNodeOf(l) == [node_id |-> 1, stdout |-> EdgeStream(l, <<1, 2>>)]

CommandNodeOf(l) ==
    [node_id |-> 2, stdin |-> <<EdgeStream(l, <<1, 2>>)>>,
     stdout |-> <<EdgeStream(l, <<2, 3>>)>>, stderr |-> <<>>]

WriteNodeOf(l) ==
    [node_id |-> 3, stdin |-> <<EdgeStream(l, <<2, 3>>)>>,
     output |-> <<FileStream("out", l[3], "WRITE")>>]

\* the pipe ends a spawn may register for the client's read and write node
ClientPipeKeys(l) ==
    {HandleIdentifier(n, "Stdout") : n \in {m \in NodesAt(l, Client) : Kind(m) # "Cmd"}}

(***************************************************************************)
(* run_stream_setup (new_client.rs 215-286) as what one setup thread does: *)
(* the address it connects to, the message type it writes, the loc field   *)
(* of the NetworkStreamInfo, its Result, and whether it inserted the       *)
(* socket into the client's SharedStreamMap.  outcome says how far the     *)
(* network lets it get.                                                    *)
(***************************************************************************)
SetupOutcomes(netstream) ==
    {"connect_err", "write_err", "read_err", "Failure", "Success"}
        \cup (IF netstream.snd = Client THEN {"sock_err"} ELSE {})

SetupRun(conn, msg, info, res, ins) ==
    [conn |-> conn, msg |-> msg, info |-> info, res |-> res, insert |-> ins]

SetupSteps(addr, msg, info, outcome, ins) ==
    CASE outcome = "connect_err" -> SetupRun(addr, "none", NoLoc, "err", FALSE)
      [] outcome = "write_err" -> SetupRun(addr, msg, info, "err", FALSE)
      [] outcome \in {"read_err", "Failure", "sock_err"} ->
            SetupRun(addr, msg, info, "err", FALSE)
      [] OTHER -> SetupRun(addr, msg, info, "ok", ins)

run_stream_setup_to_receiver(netstream, outcome) ==
    \* as run_stream_setup, but a server's stream is set up at its receiver
    IF netstream.snd = Client
    THEN IF netstream.rcv = Client
         THEN SetupRun(NoLoc, "none", NoLoc, "err", FALSE)
         ELSE SetupSteps(netstream.rcv, "Pipe", Client, outcome, TRUE)
    ELSE SetupSteps(netstream.rcv, "SetupStreams", netstream.rcv, outcome, FALSE)

run_stream_setup(netstream, outcome) ==
    IF netstream.snd = Client
    THEN IF netstream.rcv = Client
         THEN SetupRun(NoLoc, "none", NoLoc, "err", FALSE)
         ELSE SetupSteps(netstream.rcv, "Pipe", Client, outcome, TRUE)
    ELSE SetupSteps(netstream.snd, "SetupStreams", netstream.rcv, outcome, FALSE)

(***************************************************************************)
(* execute_subprogram (new_client.rs 296-345) for a server partition: the  *)
(* message it writes, the reply it reads and its Result.                   *)
(***************************************************************************)
ExecOutcomes == {"connect_err", "write_err", "read_err", "Failure", "Success"}

ExecRun(msg, reply, res) == [msg |-> msg, reply |-> reply, res |-> res]

execute_subprogram_any_reply(outcome) ==
    \* as execute_subprogram_server, but any reply of the server counts as success
    CASE outcome = "connect_err" -> ExecRun("none", "none", "err")
      [] outcome = "write_err" -> ExecRun("ProgramExecution", "none", "err")
      [] outcome = "read_err" -> ExecRun("ProgramExecution", "none", "err")
      [] outcome = "Failure" -> ExecRun("ProgramExecution", "Failure", "ok")
      [] OTHER -> ExecRun("ProgramExecution", "Success", "ok")

execute_subprogram_server(outcome) ==
    CASE outcome = "connect_err" -> ExecRun("none", "none", "err")
      [] outcome = "write_err" -> ExecRun("ProgramExecution", "none", "err")
      [] outcome = "read_err" -> ExecRun("ProgramExecution", "none", "err")
      [] outcome = "Failure" -> ExecRun("ProgramExecution", "Failure", "err")
      [] OTHER -> ExecRun("ProgramExecution", "Success", "ok")

(***************************************************************************)
(* The joins of run_setup (69-81) and send_program (111-123): what the     *)
(* joiner does with one joined thread's Result.                            *)
(***************************************************************************)
run_setup_join_ignoring_errors(res) == "continue"

run_setup_join(res) == IF res = "ok" THEN "continue" ELSE "bail"

send_program_join(res) == IF res = "ok" THEN "continue" ELSE "bail"

-----------------------------------------------------------------------------
(***************************************************************************)
(* Idle values of the variables a specification does not use.              *)
(***************************************************************************)
RtIdle ==
    /\ pc = "idle" /\ loc = <<>> /\ conflict = FALSE /\ setup = <<>>
    /\ shared_map = {} /\ inserted = {} /\ removedBy = <<>> /\ exec = <<>>
    /\ node = <<>>
    /\ pipes = {} /\ result = "none"

WnIdle ==
    /\ wn = <<>> /\ wmaps = <<>> /\ wfail = 0 /\ wout = <<>> /\ wdata = 0
    /\ wfile = <<>>

ShIdle ==
    /\ cmdline = <<>> /\ hashOrder = "asc" /\ stage = "idle"
    /\ shellsplit = <<>> /\ shellgraph = <<>> /\ program = <<>>

MgIdle ==
    /\ mrecv = <<>> /\ mother = <<>> /\ mlink = <<>> /\ mbefore = <<>>
    /\ mres = "idle"

VzIdle ==
    /\ vizstage = "idle" /\ vizidx = 0 /\ vizparse = 0 /\ vizout = 0 /\ vizexit = 0

NdIdle ==
    /\ nd_read = <<>> /\ nd_write = <<>> /\ nd_maps = <<>> /\ nd_call = <<>>
    /\ nd_before = <<>> /\ nd_res = "idle"

StIdle ==
    /\ st_pc = "idle" /\ st_order = <<>> /\ st_thread = <<>> /\ st_next = 0
    /\ st_results = {} /\ st_ret = <<>>

(***************************************************************************)
(* Spec: ShellClient::run_command.                                         *)
(***************************************************************************)
NoSetup ==
    [st |-> "none", conn |-> NoLoc, msg |-> "none", info |-> NoLoc,
     res |-> "none", joined |-> FALSE]

NoExec ==
    [st |-> "none", msg |-> "none", reply |-> "none", local |-> "none",
     res |-> "none", joined |-> FALSE]

Init ==
    /\ pc = "start"
    /\ loc \in Placements
    /\ conflict \in BOOLEAN
    /\ setup = [s \in NetStreams(loc) |-> NoSetup]
    /\ shared_map = {}
    /\ inserted = {}
    /\ removedBy = [s \in NetStreams(loc) |-> <<>>]
    /\ exec = [l \in split_by_machine(loc) |-> NoExec]
    /\ node = [n \in NodesAt(loc, Client) |-> "none"]
    /\ pipes = {}
    /\ result = "none"
    /\ WnIdle /\ ShIdle /\ MgIdle /\ VzIdle /\ NdIdle /\ StIdle

\* run_command 130-135: split the program, or fail
SplitByMachine ==
    /\ pc = "start"
    /\ IF conflict
       THEN pc' = "done" /\ result' = "err"
       ELSE pc' = "run_setup" /\ result' = result
    /\ UNCHANGED <<loc, conflict, setup, shared_map, inserted, removedBy, exec, node, pipes>>
    /\ UNCHANGED <<wnVars, shVars, mgVars, vzVars, ndVars, stVars>>

\* run_setup 45-65: one thread per outward stream of every partition
RunSetupSpawn ==
    /\ pc = "run_setup"
    /\ setup' = [s \in DOMAIN setup |->
                    IF \E l \in split_by_machine(loc) : s \in get_outward_streams(loc, l)
                    THEN [setup[s] EXCEPT !.st = "running"] ELSE setup[s]]
    /\ pc' = "setup_join"
    /\ UNCHANGED <<loc, conflict, shared_map, inserted, removedBy, exec, node, pipes, result>>
    /\ UNCHANGED <<wnVars, shVars, mgVars, vzVars, ndVars, stVars>>

\* one setup thread runs run_stream_setup to its end
SetupThread(s) ==
    /\ setup[s].st = "running"
    /\ \E outcome \in SetupOutcomes(s) :
          LET r == run_stream_setup(s, outcome)
          IN  /\ setup' = [setup EXCEPT ![s] =
                    [st |-> "done", conn |-> r.conn, msg |-> r.msg, info |-> r.info,
                     res |-> r.res, joined |-> FALSE]]
              /\ shared_map' = IF r.insert THEN MapInsert(shared_map, s) ELSE shared_map
              /\ inserted' = IF r.insert THEN inserted \cup {s} ELSE inserted
    /\ UNCHANGED <<pc, loc, conflict, removedBy, exec, node, pipes, result>>
    /\ UNCHANGED <<wnVars, shVars, mgVars, vzVars, ndVars, stVars>>

\* run_setup 69-81: join one setup thread; its error ends run_command (140)
RunSetupJoin(s) ==
    /\ pc = "setup_join"
    /\ setup[s].st = "done" /\ ~setup[s].joined
    /\ setup' = [setup EXCEPT ![s].joined = TRUE]
    /\ IF run_setup_join(setup[s].res) = "continue"
       THEN pc' = pc /\ result' = result
       ELSE pc' = "done" /\ result' = "err"
    /\ UNCHANGED <<loc, conflict, shared_map, inserted, removedBy, exec, node, pipes>>
    /\ UNCHANGED <<wnVars, shVars, mgVars, vzVars, ndVars, stVars>>

\* run_setup 83: every setup thread is joined
RunSetupReturn ==
    /\ pc = "setup_join"
    /\ \A s \in DOMAIN setup : setup[s].st # "none" /\ setup[s].joined
    /\ pc' = "send_program"
    /\ UNCHANGED <<loc, conflict, setup, shared_map, inserted, removedBy, exec, node, pipes, result>>
    /\ UNCHANGED <<wnVars, shVars, mgVars, vzVars, ndVars, stVars>>

\* send_program 91-109: one execution thread per partition
SendProgramSpawn ==
    /\ pc = "send_program"
    /\ exec' = [l \in DOMAIN exec |-> [exec[l] EXCEPT !.st = "running"]]
    /\ pc' = "exec_join"
    /\ UNCHANGED <<loc, conflict, setup, shared_map, inserted, removedBy, node, pipes, result>>
    /\ UNCHANGED <<wnVars, shVars, mgVars, vzVars, ndVars, stVars>>

\* execute_subprogram 320-343, for a server partition
ExecuteServer(l) ==
    /\ l # Client
    /\ exec[l].st = "running"
    /\ \E outcome \in ExecOutcomes :
          LET r == execute_subprogram_server(outcome)
          IN  exec' = [exec EXCEPT ![l] =
                  [st |-> "done", msg |-> r.msg, reply |-> r.reply, local |-> "none",
                   res |-> r.res, joined |-> FALSE]]
    /\ UNCHANGED <<pc, loc, conflict, setup, shared_map, inserted, removedBy, node, pipes, result>>
    /\ UNCHANGED <<wnVars, shVars, mgVars, vzVars, ndVars, stVars>>

\* execute_subprogram 305-309: resolve_args, then Program::execute spawns every
\* node (registering pipe ends) and starts one redirect thread per node
ExecuteClientStart ==
    /\ Client \in DOMAIN exec
    /\ exec[Client].st = "running"
    /\ \E resolved \in BOOLEAN :
          IF resolved
          THEN /\ exec' = [exec EXCEPT ![Client].st = "executing"]
               /\ node' = [n \in DOMAIN node |-> "running"]
               /\ pipes' \in SUBSET ClientPipeKeys(loc)
          ELSE /\ exec' = [exec EXCEPT ![Client].st = "done", ![Client].res = "err"]
               /\ UNCHANGED <<node, pipes>>
    /\ UNCHANGED <<pc, loc, conflict, setup, shared_map, inserted, removedBy, result>>
    /\ UNCHANGED <<wnVars, shVars, mgVars, vzVars, ndVars, stVars>>

\* the redirect of node n of the client partition, by the node's kind
RedirectOf(n, ok1, ok2) ==
    CASE Kind(n) = "Read" ->
            ReadNode_redirect(ReadNodeOf(loc), pipes, shared_map, ok1, ok2)
      [] Kind(n) = "Write" ->
            WriteNode_run_redirection(WriteNodeOf(loc), pipes, shared_map,
                                      IF ok1 THEN 0 ELSE 1)
      [] OTHER -> CommandNode_redirect(CommandNodeOf(loc), pipes, shared_map, ok1)

Redirect(n) ==
    /\ n \in DOMAIN node
    /\ node[n] = "running"
    /\ \E ok1 \in BOOLEAN, ok2 \in BOOLEAN :
          LET r == RedirectOf(n, ok1, ok2)
          IN  /\ node' = [node EXCEPT ![n] = r.res]
              /\ shared_map' = r.net
              /\ pipes' = r.pipes
              /\ removedBy' = [s \in DOMAIN removedBy |->
                    IF \E k \in 1..Len(r.removedNet) : r.removedNet[k] = s
                    THEN Append(removedBy[s], n) ELSE removedBy[s]]
    /\ UNCHANGED <<pc, loc, conflict, setup, inserted, exec, result>>
    /\ UNCHANGED <<wnVars, shVars, mgVars, vzVars, ndVars, stVars>>

\* Program::execute joins its redirect threads; execute_subprogram 309-318
ExecuteClientFinish ==
    /\ Client \in DOMAIN exec
    /\ exec[Client].st = "executing"
    /\ \A n \in DOMAIN node : node[n] \in {"ok", "err"}
    /\ LET ok == \A n \in DOMAIN node : node[n] = "ok"
       IN  exec' = [exec EXCEPT ![Client].st = "done",
                                ![Client].local = IF ok THEN "ok" ELSE "err",
                                ![Client].res = IF ok THEN "ok" ELSE "err"]
    /\ UNCHANGED <<pc, loc, conflict, setup, shared_map, inserted, removedBy, node, pipes, result>>
    /\ UNCHANGED <<wnVars, shVars, mgVars, vzVars, ndVars, stVars>>

\* send_program 111-123: join one execution thread; its error ends run_command (142)
SendProgramJoin(l) ==
    /\ pc = "exec_join"
    /\ exec[l].st = "done" /\ ~exec[l].joined
    /\ exec' = [exec EXCEPT ![l].joined = TRUE]
    /\ IF send_program_join(exec[l].res) = "continue"
       THEN pc' = pc /\ result' = result
       ELSE pc' = "done" /\ result' = "err"
    /\ UNCHANGED <<loc, conflict, setup, shared_map, inserted, removedBy, node, pipes>>
    /\ UNCHANGED <<wnVars, shVars, mgVars, vzVars, ndVars, stVars>>

\* send_program 124, run_command 143
SendProgramReturn ==
    /\ pc = "exec_join"
    /\ \A l \in DOMAIN exec : exec[l].joined
    /\ pc' = "done"
    /\ result' = "ok"
    /\ UNCHANGED <<loc, conflict, setup, shared_map, inserted, removedBy, exec, node, pipes>>
    /\ UNCHANGED <<wnVars, shVars, mgVars, vzVars, ndVars, stVars>>

Next ==
    \/ SplitByMachine
    \/ RunSetupSpawn
    \/ \E s \in DOMAIN setup : SetupThread(s)
    \/ \E s \in DOMAIN setup : RunSetupJoin(s)
    \/ RunSetupReturn
    \/ SendProgramSpawn
    \/ \E l \in DOMAIN exec : ExecuteServer(l)
    \/ ExecuteClientStart
    \/ \E n \in DOMAIN node : Redirect(n)
    \/ ExecuteClientFinish
    \/ \E l \in DOMAIN exec : SendProgramJoin(l)
    \/ SendProgramReturn

Spec == Init /\ [][Next]_vars

-----------------------------------------------------------------------------
(***************************************************************************)
(* Properties of run_command.                                              *)
(***************************************************************************)
Dispatched == \E l \in DOMAIN exec : exec[l].st # "none"

\* C1: no partition is dispatched (no execution thread exists) before every
\* stream-setup thread has finished with Ok; and once a setup thread has
\* failed, no partition is ever dispatched and what run_command returns is
\* an error.
C1_SetupBeforeDispatch ==
    /\ Dispatched =>
          \A s \in DOMAIN setup : setup[s].st = "done" /\ setup[s].res = "ok"
    /\ (\E s \in DOMAIN setup : setup[s].res = "err") =>
          /\ ~Dispatched
          /\ pc = "done" => result = "err"

C1_Witness ==
    /\ Dispatched
    /\ Cardinality(DOMAIN setup) >= 2
    /\ \A s \in DOMAIN setup : setup[s].joined

\* C2: when the setup phase has succeeded (run_setup returned Ok and
\* send_program is about to start), the client's SharedStreamMap holds a
\* socket under every NetStream that has the client as its sending or as its
\* receiving side.
C2_ClientHoldsEveryClientStream ==
    pc = "send_program" =>
        \A s \in DOMAIN setup :
            (s.snd = Client \/ s.rcv = Client) => MapHas(shared_map, s)

\* C3: handle discipline: after run_command has returned Ok, every socket
\* the setup phase inserted into the client's SharedStreamMap has been
\* removed exactly once, by the redirect of the client node that holds the
\* NetStream (its left node), no other socket was removed, and the map is
\* empty.
C3_HandleDiscipline ==
    (pc = "done" /\ result = "ok") =>
        /\ shared_map = {}
        /\ \A s \in DOMAIN removedBy :
              removedBy[s] = IF s \in inserted THEN <<s.left>> ELSE <<>>

C3_Witness ==
    /\ pc = "done" /\ result = "ok"
    /\ \E s \in inserted : removedBy[s] = <<1>>

StillRunning ==
    \/ \E s \in DOMAIN setup : setup[s].st = "running"
    \/ \E l \in DOMAIN exec : exec[l].st \in {"running", "executing"}
    \/ \E n \in DOMAIN node : node[n] = "running"

\* C5: run_command returns only after every setup thread and every
\* execution thread it spawned has terminated, also when one of them
\* returned an error.
C5_ReturnsAfterEveryThread == pc = "done" => ~StillRunning

ExecutionOk(l) ==
    IF l = Client THEN exec[l].local = "ok" ELSE exec[l].reply = "Success"

\* C6: run_command returns Ok exactly when split_by_machine succeeded, every
\* setup thread returned Ok and every partition's execution returned Ok (the
\* local execute returned Ok, or the server replied Success); otherwise it
\* returns an error.
C6_OkIffEverythingOk ==
    pc = "done" =>
        /\ result \in {"ok", "err"}
        /\ result = "ok" <=>
              /\ ~conflict
              /\ \A s \in DOMAIN setup : setup[s].res = "ok"
              /\ \A l \in DOMAIN exec : ExecutionOk(l)

C6_Witness ==
    /\ pc = "done" /\ result = "ok"
    /\ DOMAIN setup # {}
    /\ Client \in DOMAIN exec
    /\ \E l \in DOMAIN exec : l # Client

\* C7 as stated: every setup thread that connects connects to the host on
\* the stream's receiving side, and sends Pipe when the sending side is the
\* client and SetupStreams when it is a server.
C7_ConnectsToReceiver ==
    \A s \in DOMAIN setup :
        /\ setup[s].conn # NoLoc => setup[s].conn = s.rcv
        /\ setup[s].msg # "none" =>
              setup[s].msg = IF s.snd = Client THEN "Pipe" ELSE "SetupStreams"

\* C7 amended: a setup thread that connects connects to the stream's
\* receiving host when the sending side is the client, and sends it a Pipe
\* message; when the sending side is a server it connects to that sending
\* server and sends it a SetupStreams message that names the receiving side.
C7_ConnectsToInitiator ==
    \A s \in DOMAIN setup :
        /\ setup[s].conn # NoLoc =>
              setup[s].conn = IF s.snd = Client THEN s.rcv ELSE s.snd
        /\ setup[s].msg # "none" =>
              /\ setup[s].msg = IF s.snd = Client THEN "Pipe" ELSE "SetupStreams"
              /\ setup[s].info = IF s.snd = Client THEN Client ELSE s.rcv

C7_Witness ==
    /\ \E s \in DOMAIN setup : s.snd # Client /\ setup[s].msg = "SetupStreams"
    /\ \E s \in DOMAIN setup : s.snd = Client /\ setup[s].msg = "Pipe"

-----------------------------------------------------------------------------
(***************************************************************************)
(* SpecWrite: WriteNode::run_redirection on a write node with 1..MaxStdin  *)
(* stdin streams and 1..MaxOutputs outputs.  The j-th stdin stream comes   *)
(* from node j; the shared maps hold either every handle the node looks up *)
(* or none.                                                                *)
(***************************************************************************)
StdinChoices(j) ==
    {NetStream(j, 0, "Stdout", Server(1), Client), PipeStream(j, 0, "Stdout"),
     PipeStream(j, 0, "Stderr")}

OutputChoices ==
    {FileStream("out", Client, "WRITE"), FileStream("out", Client, "APPEND"), StdoutStream,
     StderrStream}

\* the bytes stdin stream j delivers: wdata bytes of value j
StreamBytes(j) == [b \in 1..wdata |-> j]

\* run_redirection 86-90 and 113-117, for the copies made, in loop order from
\* iteration k on: the file is opened with write(true).create(true) and the
\* stream copied into it from its start
RECURSIVE files_written(_, _, _, _)
files_written(self, k, copied, content) ==
    LET nin == Len(self.stdin)
        i == ((k - 1) \div nin) + 1
        j == ((k - 1) % nin) + 1
        bytes == StreamBytes(j)
    IN  IF k > nin * Len(self.output) THEN content
        ELSE IF <<j, i>> \in copied /\ self.output[i].kind = "File"
        THEN files_written(self, k + 1, copied,
                           bytes \o SubSeq(content, Len(bytes) + 1, Len(content)))
        ELSE files_written(self, k + 1, copied, content)

StdinLists ==
    UNION {{f \in [1..n -> UNION {StdinChoices(j) : j \in 1..n}] :
                \A j \in 1..n : f[j] \in StdinChoices(j)} : n \in 1..MaxStdin}

OutputLists == UNION {[1..m -> OutputChoices] : m \in 1..MaxOutputs}

\* the key run_redirection looks stream up under, and the map it is in
NetKeys(stdin) == {stdin[j] : j \in {k \in 1..Len(stdin) : stdin[k].kind = "Tcp"}}

PipeKeys(node_id, stdin) ==
    {HandleIdentifier(node_id, stdin[j].io) :
        j \in {k \in 1..Len(stdin) : stdin[k].kind = "Pipe"}}

InitWrite ==
    /\ \E stdin \in StdinLists, output \in OutputLists :
          wn = [node_id |-> 0, stdin |-> stdin, output |-> output]
    /\ \E present \in BOOLEAN :
          wmaps = IF present
                  THEN [pipes |-> PipeKeys(wn.node_id, wn.stdin), net |-> NetKeys(wn.stdin)]
                  ELSE [pipes |-> {}, net |-> {}]
    /\ wfail \in 0..(Len(wn.stdin) * Len(wn.output))
    /\ wout = Redirected("none", wmaps.pipes, wmaps.net, <<>>, <<>>, {})
    /\ wdata \in 1..MaxBytes
    /\ \E m \in 0..MaxBytes :
          wfile = [before |-> [b \in 1..m |-> 0], after |-> [b \in 1..m |-> 0]]
    /\ RtIdle /\ ShIdle /\ MgIdle /\ VzIdle /\ NdIdle /\ StIdle

RunRedirection ==
    /\ stage = "idle" /\ pc = "idle"
    /\ wout.res = "none"
    /\ wout' = WriteNode_run_redirection(wn, wmaps.pipes, wmaps.net, wfail)
    /\ wfile' = [wfile EXCEPT !.after = files_written(wn, 1, wout'.copied, wfile.before)]
    /\ UNCHANGED <<wn, wmaps, wfail, wdata>>
    /\ UNCHANGED <<rtVars, shVars, mgVars, vzVars, ndVars, stVars>>

NextWrite == RunRedirection

SpecWrite == InitWrite /\ [][NextWrite]_vars

Occurrences(seq, x) == Cardinality({k \in 1..Len(seq) : seq[k] = x})

\* every stdin stream has a handle of its own in its map: the keys are there,
\* and no two stdin streams share one
HandlesPresent ==
    /\ NetKeys(wn.stdin) \subseteq wmaps.net
    /\ PipeKeys(wn.node_id, wn.stdin) \subseteq wmaps.pipes
    /\ Cardinality(NetKeys(wn.stdin)) + Cardinality(PipeKeys(wn.node_id, wn.stdin))
          = Len(wn.stdin)

\* C4: for a WriteNode with n >= 1 Pipe or Tcp stdin streams whose handles
\* are all in the shared maps and m >= 1 File, Stdout or Stderr outputs (and
\* no I/O error), run_redirection returns Ok, removes each stdin handle
\* exactly once, and copies every stdin stream onto every output, for m >= 2
\* as for m = 1.
C4_CopiesEveryStdinOntoEveryOutput ==
    (wout.res # "none" /\ HandlesPresent /\ wfail = 0) =>
        /\ wout.res = "ok"
        /\ \A s \in NetKeys(wn.stdin) : Occurrences(wout.removedNet, s) = 1
        /\ \A h \in PipeKeys(wn.node_id, wn.stdin) : Occurrences(wout.removedPipes, h) = 1
        /\ wout.copied = (1..Len(wn.stdin)) \X (1..Len(wn.output))

-----------------------------------------------------------------------------
(***************************************************************************)
(* The shell frontend (shellparser.rs).                                    *)
(*                                                                         *)
(* RawShellElement: Str(word), Stdin, Stdout, Stderr, Pipe, StdoutAppend   *)
(* and Subcmd(SubCommand), the last with the elements of the subcommand.   *)
(***************************************************************************)
Elt(type, str, elts) == [type |-> type, str |-> str, elts |-> elts]

Str(word) == Elt("Str", word, <<>>)

Subcmd(elts) == Elt("Subcmd", "", elts)

\* the operator tokens both loops of ShellSplit::new match (580-599, 607-626)
OperatorElt(token) ==
    CASE token = ">" -> Elt("Stdout", "", <<>>)
      [] token = ">>" -> Elt("StdoutAppend", "", <<>>)
      [] token = "<" -> Elt("Stdin", "", <<>>)
      [] token = "2>" -> Elt("Stderr", "", <<>>)
      [] token = "|" -> Elt("Pipe", "", <<>>)
      [] OTHER -> Str(token)

\* a Result: res is "ok" (and val holds the value), "err" or "panic"
Ok(val) == [res |-> "ok", val |-> val]

Err == [res |-> "err", val |-> <<>>]

Panic == [res |-> "panic", val |-> <<>>]

\* ShellSplit::new 570-600: the elements of the tokens up to the first ")"
\* after a "<("; a "<(" in there is a word like any other
RECURSIVE Subcommand(_, _, _)
Subcommand(tokens, i, close) ==
    IF i >= close THEN <<>>
    ELSE <<OperatorElt(tokens[i])>> \o Subcommand(tokens, i + 1, close)

RECURSIVE ShellSplit_lift_lenient(_, _, _)
ShellSplit_lift_lenient(tokens, i, elements) ==
    \* as ShellSplit_lift, but a "<(" without a ")" ends the scan without an error
    IF i > Len(tokens) THEN Ok(elements)
    ELSE IF tokens[i] = "<("
    THEN LET closes == {k \in (i + 1)..Len(tokens) : tokens[k] = ")"}
         IN  IF closes = {} THEN Ok(elements)
             ELSE LET close == CHOOSE k \in closes : \A m \in closes : k <= m
                  IN  ShellSplit_lift_lenient(tokens, close + 1,
                          elements \o <<Elt("Stdin", "", <<>>),
                                        Subcmd(Subcommand(tokens, i + 1, close))>>)
    ELSE ShellSplit_lift_lenient(tokens, i + 1, Append(elements, OperatorElt(tokens[i])))

\* ShellSplit::new 556-630
RECURSIVE ShellSplit_lift(_, _, _)
ShellSplit_lift(tokens, i, elements) ==
    IF i > Len(tokens) THEN Ok(elements)
    ELSE IF tokens[i] = "<("
    THEN LET closes == {k \in (i + 1)..Len(tokens) : tokens[k] = ")"}
         IN  IF closes = {} THEN Err
             ELSE LET close == CHOOSE k \in closes : \A m \in closes : k <= m
                  IN  ShellSplit_lift(tokens, close + 1,
                          elements \o <<Elt("Stdin", "", <<>>),
                                        Subcmd(Subcommand(tokens, i + 1, close))>>)
    ELSE ShellSplit_lift(tokens, i + 1, Append(elements, OperatorElt(tokens[i])))

ShellSplit_new(tokens) == ShellSplit_lift(tokens, 1, <<>>)

(***************************************************************************)
(* ShellGraph: nodes (NodeId -> the node's SubCommand elements), edges (a  *)
(* vector of ShellLinks), counter, sinks and front.                        *)
(***************************************************************************)
ShellLink(l, r) == [left |-> l, right |-> r]

ShellGraph_default ==
    [nodes |-> <<>>, edges |-> <<>>, counter |-> 0, sinks |-> <<>>, front |-> <<>>]

\* HashMap::insert
Put(map, key, val) ==
    [k \in DOMAIN map \cup {key} |-> IF k = key THEN val ELSE map[k]]

\* Vec::retain(|x| x != id)
RECURSIVE Without(_, _)
Without(vec, id) ==
    IF vec = <<>> THEN <<>>
    ELSE IF Head(vec) = id THEN Without(Tail(vec), id)
    ELSE <<Head(vec)>> \o Without(Tail(vec), id)

\* ShellGraph::add_node 309-319; the new node's id is the old counter
add_node(g, cmd) ==
    [g EXCEPT !.nodes = Put(g.nodes, g.counter, cmd),
              !.counter = g.counter + 1,
              !.sinks = Append(g.sinks, g.counter),
              !.front = Append(g.front, g.counter)]

add_link_keeping_front(g, left, right) ==
    \* as add_link, but the right node stays in front
    [g EXCEPT !.sinks = Without(g.sinks, left),
              !.edges = Append(g.edges, ShellLink(left, right))]

\* ShellGraph::add_link 325-336
add_link(g, left, right) ==
    [g EXCEPT !.sinks = Without(g.sinks, left),
              !.front = Without(g.front, right),
              !.edges = Append(g.edges, ShellLink(left, right))]

\* The order in which a HashMap's iterator yields the keys: Rust leaves it
\* open; the model runs every pipeline under ascending and under descending
\* order (hashOrder).
RECURSIVE KeysInOrder(_, _)
KeysInOrder(keys, order) ==
    IF keys = {} THEN <<>>
    ELSE LET k == IF order = "asc"
                  THEN CHOOSE x \in keys : \A y \in keys : x <= y
                  ELSE CHOOSE x \in keys : \A y \in keys : x >= y
         IN  <<k>> \o KeysInOrder(keys \ {k}, order)

\* ShellGraph::merge 475-479: every node of `other` is added under a new id
RECURSIVE merge_nodes(_, _, _, _)
merge_nodes(g, other, keys, id_map) ==
    IF keys = <<>> THEN [g |-> g, id_map |-> id_map]
    ELSE merge_nodes(add_node(g, other.nodes[Head(keys)]), other, Tail(keys),
                     Put(id_map, Head(keys), g.counter))

RECURSIVE merge_links_unrenamed(_, _, _)
merge_links_unrenamed(g, links, id_map) ==
    \* as merge_links, but the links keep the ids they had in `other`
    IF links = <<>> THEN g
    ELSE merge_links_unrenamed(add_link(g, Head(links).left, Head(links).right),
                               Tail(links), id_map)

\* ShellGraph::merge 482-487
RECURSIVE merge_links(_, _, _)
merge_links(g, links, id_map) ==
    IF links = <<>> THEN g
    ELSE merge_links(add_link(g, id_map[Head(links).left], id_map[Head(links).right]),
                     Tail(links), id_map)

NoLink == [some |-> FALSE, link |-> ShellLink(0, 0), is_input |-> FALSE]

SomeLink(l, r, is_input) == [some |-> TRUE, link |-> ShellLink(l, r), is_input |-> is_input]

merge_connecting_unrenamed(self, other, connection_link, order) ==
    \* as merge, but the connection link keeps the id its endpoint had in `other`
    LET added == merge_nodes(self, other, KeysInOrder(DOMAIN other.nodes, order), <<>>)
        linked == merge_links(added.g, other.edges, added.id_map)
        link == connection_link.link
    IN  IF ~connection_link.some THEN Ok(linked)
        ELSE IF connection_link.is_input
        THEN IF link.right \notin DOMAIN linked.nodes \/ link.left \notin DOMAIN other.nodes
             THEN Err
             ELSE Ok(add_link(linked, link.left, link.right))
        ELSE IF link.left \notin DOMAIN linked.nodes \/ link.right \notin DOMAIN other.nodes
             THEN Err
             ELSE Ok(add_link(linked, link.left, link.right))

\* ShellGraph::merge 469-517
merge(self, other, connection_link, order) ==
    LET added == merge_nodes(self, other, KeysInOrder(DOMAIN other.nodes, order), <<>>)
        linked == merge_links(added.g, other.edges, added.id_map)
        link == connection_link.link
    IN  IF ~connection_link.some THEN Ok(linked)
        ELSE IF connection_link.is_input
        THEN IF link.right \notin DOMAIN linked.nodes \/ link.left \notin DOMAIN other.nodes
             THEN Err
             ELSE Ok(add_link(linked, added.id_map[link.left], link.right))
        ELSE IF link.left \notin DOMAIN linked.nodes \/ link.right \notin DOMAIN other.nodes
             THEN Err
             ELSE Ok(add_link(linked, link.left, added.id_map[link.right]))

\* ShellGraphNode::push on the node `id` of the graph
push(g, id, elt) == [g EXCEPT !.nodes[id] = Append(@, elt)]

SplitOnPipe_whole(elts, part) == <<elts>>
    \* as SplitOnPipe, but the elements are not split at the pipes

\* slice::split(|elt| elt == Pipe): the parts between the Pipe elements, the
\* empty ones included
RECURSIVE SplitOnPipe(_, _)
SplitOnPipe(elts, part) ==
    IF elts = <<>> THEN <<part>>
    ELSE IF Head(elts).type = "Pipe" THEN <<part>> \o SplitOnPipe(Tail(elts), <<>>)
    ELSE SplitOnPipe(Tail(elts), Append(part, Head(elts)))

RECURSIVE get_subgraph_from(_, _, _, _)
RECURSIVE get_subgraph(_, _)
RECURSIVE convert_parts(_, _, _, _)

\* ShellSplit::convert_into_shell_graph 633-680
convert_into_shell_graph(elts, order) ==
    convert_parts(SplitOnPipe(elts, <<>>), 1, ShellGraph_default, order)

\* convert_into_shell_graph 653: new_subgraph.get_front()[0]
subgraph_front(new_subgraph) == new_subgraph.front[1]

\* the loop of convert_into_shell_graph, 638-678, from part k on
convert_parts(parts, k, graph, order) ==
    IF k > Len(parts) THEN Ok(graph)
    ELSE LET new_subgraph == get_subgraph(parts[k], order)
         IN  IF new_subgraph.res # "ok" THEN new_subgraph
             ELSE IF DOMAIN graph.nodes = {}
             THEN LET merged == merge(graph, new_subgraph.val, NoLink, order)
                  IN  IF merged.res # "ok" THEN merged
                      ELSE convert_parts(parts, k + 1, merged.val, order)
             ELSE IF graph.sinks = <<>> \/ new_subgraph.val.front = <<>> THEN Panic
             ELSE LET merged == merge(graph, new_subgraph.val,
                                      SomeLink(graph.sinks[1],
                                               subgraph_front(new_subgraph.val), FALSE),
                                      order)
                  IN  IF merged.res # "ok" THEN merged
                      ELSE convert_parts(parts, k + 1, merged.val, order)

\* get_subgraph 683-752, from element i on; the part's own node has id 0
get_subgraph_from(subcmd, i, graph, order) ==
    IF i > Len(subcmd) THEN Ok(graph)
    ELSE LET elt == subcmd[i]
         IN  CASE elt.type = "Str" ->
                    get_subgraph_from(subcmd, i + 1, push(graph, 0, elt), order)
               [] elt.type = "Stdin" ->
                    IF i + 1 > Len(subcmd) THEN Err
                    ELSE IF subcmd[i + 1].type = "Str"
                    THEN get_subgraph_from(subcmd, i + 2,
                             push(push(graph, 0, elt), 0, subcmd[i + 1]), order)
                    ELSE IF subcmd[i + 1].type = "Subcmd"
                    THEN LET new_subgraph ==
                                 convert_into_shell_graph(subcmd[i + 1].elts, order)
                         IN  IF new_subgraph.res # "ok" THEN new_subgraph
                             ELSE IF new_subgraph.val.sinks = <<>> THEN Panic
                             ELSE LET merged ==
                                          merge(graph, new_subgraph.val,
                                                SomeLink(new_subgraph.val.sinks[1], 0, TRUE),
                                                order)
                                  IN  IF merged.res # "ok" THEN merged
                                      ELSE get_subgraph_from(subcmd, i + 2, merged.val, order)
                    ELSE Err
               [] elt.type \in {"Stderr", "StdoutAppend", "Stdout"} ->
                    get_subgraph_from(subcmd, i + 1, push(graph, 0, elt), order)
               [] OTHER -> Err

get_subgraph(subcmd, order) ==
    get_subgraph_from(subcmd, 1, add_node(ShellGraph_default, <<>>), order)

(***************************************************************************)
(* Program (dash::graph::program), whose source is not part of the files   *)
(* modelled: nodes (NodeId -> node), a set of edges and a counter.  After  *)
(* the specification's section 4.1 and the callers in shellparser.rs,      *)
(* add_elem numbers the nodes from 1 (the command node of a subprogram is  *)
(* node 1) and add_unique_edge adds an edge once.  A node is a CommandNode *)
(* (name, args, stdin, stdout, stderr), a ReadNode (its File input in      *)
(* stdin, its one output in stdout) or a WriteNode (stdin, its outputs in  *)
(* stdout).                                                                *)
(***************************************************************************)
Program_default == [nodes |-> <<>>, edges |-> {}, counter |-> 0]

Node(kind, name, args, stdin, stdout, stderr) ==
    [kind |-> kind, name |-> name, args |-> args, stdin |-> stdin, stdout |-> stdout,
     stderr |-> stderr]

add_elem(prog, elem) ==
    [prog EXCEPT !.nodes = Put(prog.nodes, prog.counter + 1, elem),
                 !.counter = prog.counter + 1]

add_unique_edge(prog, left, right) == [prog EXCEPT !.edges = @ \cup {<<left, right>>}]

\* FileStream::new(path, location): the mode is the one the constructor sets,
\* the same for every caller
FileStream_new(filename, where) == FileStream(filename, where, "default")

\* FileStream::set_mode
set_mode(fs, mode) == [fs EXCEPT !.mode = mode]

\* readnode.add_stdin(File) on ReadNode::default(), shellparser.rs 115-119
ReadNode_new(fs) == Node("Read", "", <<>>, <<fs>>, <<>>, <<>>)

\* writenode.set_stdout(stream) on WriteNode::default(), 134-138, 420-427
WriteNode_new(stream) == Node("Write", "", <<>>, <<>>, <<stream>>, <<>>)

(***************************************************************************)
(* ShellGraphNode::generate_subprogram 92-253.                             *)
(***************************************************************************)
Scanned(res, name, args, ins, outs, errs) ==
    [res |-> res, name |-> name, args |-> args, stdin_nodes |-> ins,
     stdout_nodes |-> outs, stderr_nodes |-> errs]

RECURSIVE generate_scan_skipping(_, _, _)
generate_scan_skipping(elts, i, acc) ==
    \* as generate_scan, but a directive without a filename is skipped
    IF i > Len(elts) THEN acc
    ELSE LET elt == elts[i]
             has_filename == i + 1 <= Len(elts) /\ elts[i + 1].type = "Str"
             filename == elts[i + 1].str
         IN  CASE elt.type = "Str" ->
                    generate_scan_skipping(elts, i + 1,
                        IF acc.name = "" THEN [acc EXCEPT !.name = elt.str]
                        ELSE [acc EXCEPT !.args = Append(@, elt.str)])
               [] elt.type \in {"Stdin", "Stdout", "StdoutAppend", "Stderr"} /\ ~has_filename ->
                    generate_scan_skipping(elts, i + 1, acc)
               [] elt.type = "Stdin" ->
                    generate_scan_skipping(elts, i + 2,
                        [acc EXCEPT !.stdin_nodes =
                            Append(@, ReadNode_new(FileStream_new(filename, Client)))])
               [] elt.type = "Stdout" ->
                    generate_scan_skipping(elts, i + 2,
                        [acc EXCEPT !.stdout_nodes =
                            Append(@, WriteNode_new(FileStream_new(filename, Client)))])
               [] elt.type = "StdoutAppend" ->
                    generate_scan_skipping(elts, i + 2,
                        [acc EXCEPT !.stdout_nodes =
                            Append(@, WriteNode_new(
                                set_mode(FileStream_new(filename, Client), "APPEND")))])
               [] elt.type = "Stderr" ->
                    generate_scan_skipping(elts, i + 2,
                        [acc EXCEPT !.stderr_nodes =
                            Append(@, WriteNode_new(FileStream_new(filename, Client)))])
               [] OTHER -> [acc EXCEPT !.res = "err"]

\* the while loop, 100-197, from element i on
RECURSIVE generate_scan(_, _, _)
generate_scan(elts, i, acc) ==
    IF i > Len(elts) THEN acc
    ELSE LET elt == elts[i]
             has_filename == i + 1 <= Len(elts) /\ elts[i + 1].type = "Str"
             filename == elts[i + 1].str
         IN  CASE elt.type = "Str" ->
                    generate_scan(elts, i + 1,
                        IF acc.name = "" THEN [acc EXCEPT !.name = elt.str]
                        ELSE [acc EXCEPT !.args = Append(@, elt.str)])
               [] elt.type = "Stdin" ->
                    IF ~has_filename THEN [acc EXCEPT !.res = "err"]
                    ELSE generate_scan(elts, i + 2,
                            [acc EXCEPT !.stdin_nodes =
                                Append(@, ReadNode_new(FileStream_new(filename, Client)))])
               [] elt.type = "Stdout" ->
                    IF ~has_filename THEN [acc EXCEPT !.res = "err"]
                    ELSE generate_scan(elts, i + 2,
                            [acc EXCEPT !.stdout_nodes =
                                Append(@, WriteNode_new(FileStream_new(filename, Client)))])
               [] elt.type = "StdoutAppend" ->
                    IF ~has_filename THEN [acc EXCEPT !.res = "err"]
                    ELSE generate_scan(elts, i + 2,
                            [acc EXCEPT !.stdout_nodes =
                                Append(@, WriteNode_new(
                                    set_mode(FileStream_new(filename, Client), "APPEND")))])
               [] elt.type = "Stderr" ->
                    IF ~has_filename THEN [acc EXCEPT !.res = "err"]
                    ELSE generate_scan(elts, i + 2,
                            [acc EXCEPT !.stderr_nodes =
                                Append(@, WriteNode_new(FileStream_new(filename, Client)))])
               [] OTHER -> [acc EXCEPT !.res = "err"]

attach_stdin_reversed(prog, cmd_node_id, stdin) ==
    \* as attach_stdin, but the edge runs from the command node to the read node
    LET added == add_elem(prog, stdin)
        stdin_node_id == added.counter
        pipe == PipeStream(stdin_node_id, cmd_node_id, "Stdout")
    IN  add_unique_edge(
            [added EXCEPT !.nodes[cmd_node_id].stdin = Append(@, pipe),
                          !.nodes[stdin_node_id].stdout = <<pipe>>],
            cmd_node_id, stdin_node_id)

\* 200-219: a read node is added and piped into the command node
attach_stdin(prog, cmd_node_id, stdin) ==
    LET added == add_elem(prog, stdin)
        stdin_node_id == added.counter
        pipe == PipeStream(stdin_node_id, cmd_node_id, "Stdout")
    IN  add_unique_edge(
            [added EXCEPT !.nodes[cmd_node_id].stdin = Append(@, pipe),
                          !.nodes[stdin_node_id].stdout = <<pipe>>],
            stdin_node_id, cmd_node_id)

\* 220-235: a write node is added and the command node's stdout piped into it
attach_stdout(prog, cmd_node_id, stdout) ==
    LET added == add_elem(prog, stdout)
        stdout_node_id == added.counter
        pipe == PipeStream(cmd_node_id, stdout_node_id, "Stdout")
    IN  add_unique_edge(
            [added EXCEPT !.nodes[cmd_node_id].stdout = Append(@, pipe),
                          !.nodes[stdout_node_id].stdin = Append(@, pipe)],
            cmd_node_id, stdout_node_id)

attach_stderr_to_stdout(prog, cmd_node_id, stderr) ==
    \* as attach_stderr, but the pipe is registered with add_stdout
    LET added == add_elem(prog, stderr)
        stderr_node_id == added.counter
        pipe == PipeStream(cmd_node_id, stderr_node_id, "Stderr")
    IN  add_unique_edge(
            [added EXCEPT !.nodes[cmd_node_id].stdout = Append(@, pipe),
                          !.nodes[stderr_node_id].stdin = Append(@, pipe)],
            cmd_node_id, stderr_node_id)

\* 236-251: a write node is added and the command node's stderr piped into it
attach_stderr(prog, cmd_node_id, stderr) ==
    LET added == add_elem(prog, stderr)
        stderr_node_id == added.counter
        pipe == PipeStream(cmd_node_id, stderr_node_id, "Stderr")
    IN  add_unique_edge(
            [added EXCEPT !.nodes[cmd_node_id].stderr = Append(@, pipe),
                          !.nodes[stderr_node_id].stdin = Append(@, pipe)],
            cmd_node_id, stderr_node_id)

RECURSIVE attach_all(_, _, _, _)
attach_all(prog, cmd_node_id, elems, io) ==
    IF elems = <<>> THEN prog
    ELSE attach_all(
            CASE io = "Stdin" -> attach_stdin(prog, cmd_node_id, Head(elems))
              [] io = "Stdout" -> attach_stdout(prog, cmd_node_id, Head(elems))
              [] OTHER -> attach_stderr(prog, cmd_node_id, Head(elems)),
            cmd_node_id, Tail(elems), io)

generate_subprogram(elts) ==
    LET scanned == generate_scan(elts, 1, Scanned("ok", "", <<>>, <<>>, <<>>, <<>>))
        with_cmd == add_elem(Program_default,
                             Node("Cmd", scanned.name, scanned.args, <<>>, <<>>, <<>>))
        cmd_node_id == with_cmd.counter
    IN  IF scanned.res # "ok" THEN Err
        ELSE Ok(attach_all(
                  attach_all(
                    attach_all(with_cmd, cmd_node_id, scanned.stdin_nodes, "Stdin"),
                    cmd_node_id, scanned.stdout_nodes, "Stdout"),
                  cmd_node_id, scanned.stderr_nodes, "Stderr"))

\* ShellGraph::get_subgraph_map 348-355
get_subgraph_map(g) ==
    IF \E id \in DOMAIN g.nodes : generate_subprogram(g.nodes[id]).res # "ok" THEN Err
    ELSE Ok([id \in DOMAIN g.nodes |-> generate_subprogram(g.nodes[id]).val])

(***************************************************************************)
(* Program::merge_subgraphs, whose source is not part of the files         *)
(* modelled: after the specification's section 4.1 it concatenates the     *)
(* nodes and edges of the subprograms, rebasing the NodeIds (in the        *)
(* streams too), and for every link adds a new Stdout Pipe edge between    *)
(* the named nodes of the two sides.                                       *)
(***************************************************************************)
RECURSIVE Offset(_, _, _)
Offset(subgraph_map, keys, id) ==
    IF keys = <<>> \/ Head(keys) = id THEN 0
    ELSE subgraph_map[Head(keys)].counter + Offset(subgraph_map, Tail(keys), id)

Rebase(stream, offset) ==
    IF stream.kind = "Pipe"
    THEN [stream EXCEPT !.left = @ + offset, !.right = @ + offset]
    ELSE stream

RebaseAll(streams, offset) == [k \in DOMAIN streams |-> Rebase(streams[k], offset)]

RECURSIVE connect_subgraphs(_, _, _, _)
connect_subgraphs(prog, links, subgraph_map, keys) ==
    IF links = <<>> THEN Ok(prog)
    ELSE LET from == Head(links)[1]
             to == Head(links)[2]
         IN  IF \/ from[1] \notin DOMAIN subgraph_map \/ to[1] \notin DOMAIN subgraph_map
                \/ from[2] \notin DOMAIN subgraph_map[from[1]].nodes
                \/ to[2] \notin DOMAIN subgraph_map[to[1]].nodes
             THEN Err
             ELSE LET left == Offset(subgraph_map, keys, from[1]) + from[2]
                      right == Offset(subgraph_map, keys, to[1]) + to[2]
                      pipe == PipeStream(left, right, "Stdout")
                  IN  connect_subgraphs(
                          add_unique_edge(
                              [prog EXCEPT !.nodes[left].stdout = Append(@, pipe),
                                           !.nodes[right].stdin = Append(@, pipe)],
                              left, right),
                          Tail(links), subgraph_map, keys)

merge_subgraphs(subgraph_map, links, order) ==
    LET keys == KeysInOrder(DOMAIN subgraph_map, order)
        off(id) == Offset(subgraph_map, keys, id)
        places == UNION {{<<id, n>> : n \in DOMAIN subgraph_map[id].nodes} :
                            id \in DOMAIN subgraph_map}
        place(new) == CHOOSE pl \in places : off(pl[1]) + pl[2] = new
        rebased(pl) ==
            LET elem == subgraph_map[pl[1]].nodes[pl[2]]
            IN  [elem EXCEPT !.stdin = RebaseAll(@, off(pl[1])),
                             !.stdout = RebaseAll(@, off(pl[1])),
                             !.stderr = RebaseAll(@, off(pl[1]))]
        concatenated ==
            [nodes |-> [new \in {off(pl[1]) + pl[2] : pl \in places} |-> rebased(place(new))],
             edges |-> UNION {{<<e[1] + off(id), e[2] + off(id)>> :
                                  e \in subgraph_map[id].edges} : id \in DOMAIN subgraph_map},
             counter |-> Cardinality(places)]
    IN  connect_subgraphs(concatenated, links, subgraph_map, keys)

RECURSIVE subgraph_links_reversed(_)
subgraph_links_reversed(edges) ==
    \* as subgraph_links, but every link runs from the right subprogram to the left
    IF edges = <<>> THEN <<>>
    ELSE <<<< <<Head(edges).right, 1>>, <<Head(edges).left, 1>> >>>>
            \o subgraph_links_reversed(Tail(edges))

\* convert_into_program 397-401: one link per ShellGraph edge, between node 1
\* of the two subprograms
RECURSIVE subgraph_links(_)
subgraph_links(edges) ==
    IF edges = <<>> THEN <<>>
    ELSE <<<< <<Head(edges).left, 1>>, <<Head(edges).right, 1>> >>>>
            \o subgraph_links(Tail(edges))

\* ShellGraph::get_program_without_output_nodes 357-378
get_program_without_output_nodes(g, order) ==
    LET subgraph_map == get_subgraph_map(g)
    IN  IF subgraph_map.res # "ok" THEN subgraph_map
        ELSE merge_subgraphs(subgraph_map.val, subgraph_links(g.edges), order)

\* convert_into_program 406-418: the (node, IOType) pairs that get a terminator
RECURSIVE missing_outputs_std(_, _)
missing_outputs_std(prog, ids) ==
    \* as missing_outputs, but a missing stderr is not looked for
    IF ids = <<>> THEN <<>>
    ELSE LET elem == prog.nodes[Head(ids)]
         IN  (IF elem.kind # "Cmd" THEN <<>>
              ELSE IF Len(elem.stdout) = 0 THEN << <<Head(ids), "Stdout">> >> ELSE <<>>)
             \o missing_outputs_std(prog, Tail(ids))

RECURSIVE missing_outputs(_, _)
missing_outputs(prog, ids) ==
    IF ids = <<>> THEN <<>>
    ELSE LET elem == prog.nodes[Head(ids)]
         IN  (IF elem.kind # "Cmd" THEN <<>>
              ELSE (IF Len(elem.stdout) = 0 THEN << <<Head(ids), "Stdout">> >> ELSE <<>>)
                   \o (IF Len(elem.stderr) = 0 THEN << <<Head(ids), "Stderr">> >> ELSE <<>>))
             \o missing_outputs(prog, Tail(ids))

\* convert_into_program 419-455: one WriteNode per pair, piped from the node
RECURSIVE add_output_nodes(_, _)
add_output_nodes(prog, pairs) ==
    IF pairs = <<>> THEN prog
    ELSE LET id == Head(pairs)[1]
             iotype == Head(pairs)[2]
             writenode == WriteNode_new(IF iotype = "Stdout" THEN StdoutStream
                                        ELSE StderrStream)
             added == add_elem(prog, writenode)
             new_id == added.counter
             new_pipe == PipeStream(id, new_id, iotype)
             piped == IF iotype = "Stdout"
                      THEN [added EXCEPT !.nodes[id].stdout = Append(@, new_pipe)]
                      ELSE [added EXCEPT !.nodes[id].stderr = Append(@, new_pipe)]
         IN  add_output_nodes(
                 add_unique_edge([piped EXCEPT !.nodes[new_id].stdin = Append(@, new_pipe)],
                                 id, new_id),
                 Tail(pairs))

\* ShellGraph::convert_into_program 384-458
convert_into_program(g, order) ==
    LET merged == get_program_without_output_nodes(g, order)
    IN  IF merged.res # "ok" THEN merged
        ELSE Ok(add_output_nodes(merged.val,
                    missing_outputs(merged.val,
                                    KeysInOrder(DOMAIN merged.val.nodes, order))))

-----------------------------------------------------------------------------
(***************************************************************************)
(* The frontend run on command lines, as parse_command (36-49) and viz2's  *)
(* run_viz run it: ShellSplit::new, then convert_into_shell_graph, then    *)
(* convert_into_program.  The command line is the token list shlex's split *)
(* hands to ShellSplit::new: up to MaxSegments segments joined by "|".     *)
(* Segment k uses the words ck, sk and tk, so that a node is known by its  *)
(* command word.                                                           *)
(***************************************************************************)
MaxSegments == 2

Word(letter, k) == letter \o ToString(k)

Shapes ==
    {"cmd", "arg", "in", "out", "append", "err", "out_err", "sub", "sub_pipe",
     "two_subs", "sub_in", "sub_out", "full", "no_file", "in_no_file", "op_op",
     "in_op", "sub_no_file", "unclosed", "unclosed_second", "nested", "only_out"}

Segment(shape, k) ==
    LET c == Word("c", k)
        s == Word("s", k)
        t == Word("t", k)
    IN  CASE shape = "cmd" -> <<c>>
          [] shape = "arg" -> <<c, "-a">>
          [] shape = "in" -> <<c, "<", "f">>
          [] shape = "out" -> <<c, ">", "f">>
          [] shape = "append" -> <<c, ">>", "h">>
          [] shape = "err" -> <<c, "2>", "g">>
          [] shape = "out_err" -> <<c, ">", "f", "2>", "g">>
          [] shape = "sub" -> <<c, "<(", s, ")">>
          [] shape = "sub_pipe" -> <<c, "<(", s, "|", t, ")">>
          [] shape = "two_subs" -> <<c, "<(", s, ")", "<(", t, ")">>
          [] shape = "sub_in" -> <<c, "<(", s, "<", "f", ")">>
          [] shape = "sub_out" -> <<c, "<(", s, ")", ">", "f">>
          [] shape = "full" -> <<c, "<(", s, "|", t, ")", "<(", t, ")", ">", "f", "2>", "g">>
          [] shape = "no_file" -> <<c, ">">>
          [] shape = "in_no_file" -> <<c, "<">>
          [] shape = "op_op" -> <<c, ">", "2>", "g">>
          [] shape = "in_op" -> <<c, "<", ">", "f">>
          [] shape = "sub_no_file" -> <<c, "<(", s, ">", ")">>
          [] shape = "unclosed" -> <<c, "<(", s>>
          [] shape = "unclosed_second" -> <<c, "<(", s, ")", "<(", t>>
          [] shape = "nested" -> <<c, "<(", s, "<(", t, ")", ")">>
          [] OTHER -> <<">", "f">>

RECURSIVE CommandLine(_, _)
CommandLine(shapes, k) ==
    IF k > Len(shapes) THEN <<>>
    ELSE (IF k = 1 THEN <<>> ELSE <<"|">>) \o Segment(shapes[k], k)
         \o CommandLine(shapes, k + 1)

\* the command of test_shell_split_to_graph (771-801), and the same with one
\* process substitution (the example of the specification's section 4.1)
TestCommands ==
    {<<"grep", "foo", "<(", "cat", "bar", ")", "<(", "cat", "bar2", ")", "|",
       "wc", ">", "output.txt", "2>", "err.txt">>,
     <<"grep", "foo", "<(", "cat", "bar", ")", "|", "wc", ">", "out.txt", "2>", "err.txt">>}

CommandLines ==
    UNION {{CommandLine(shapes, 1) : shapes \in [1..n -> Shapes]} : n \in 0..MaxSegments}
        \cup TestCommands

NotRun == [res |-> "none", val |-> <<>>]

InitShell ==
    /\ RtIdle
    /\ WnIdle
    /\ MgIdle
    /\ VzIdle /\ NdIdle /\ StIdle
    /\ cmdline \in CommandLines
    /\ hashOrder \in {"asc", "desc"}
    /\ stage = "start"
    /\ shellsplit = NotRun
    /\ shellgraph = NotRun
    /\ program = NotRun

Staged(returned, next) == IF returned.res = "ok" THEN next ELSE "failed"

\* parse_command 42, viz2.rs 161
ShellSplitNew ==
    /\ stage = "start"
    /\ shellsplit' = ShellSplit_new(cmdline)
    /\ stage' = Staged(shellsplit', "split")
    /\ UNCHANGED <<rtVars, wnVars, mgVars, vzVars, ndVars, stVars>>
    /\ UNCHANGED <<cmdline, hashOrder, shellgraph, program>>

\* parse_command 44, viz2.rs 162
ConvertIntoShellGraph ==
    /\ stage = "split"
    /\ shellgraph' = convert_into_shell_graph(shellsplit.val, hashOrder)
    /\ stage' = Staged(shellgraph', "graph")
    /\ UNCHANGED <<rtVars, wnVars, mgVars, vzVars, ndVars, stVars>>
    /\ UNCHANGED <<cmdline, hashOrder, shellsplit, program>>

\* parse_command 46
ConvertIntoProgram ==
    /\ stage = "graph"
    /\ program' = convert_into_program(shellgraph.val, hashOrder)
    /\ stage' = Staged(program', "program")
    /\ UNCHANGED <<rtVars, wnVars, mgVars, vzVars, ndVars, stVars>>
    /\ UNCHANGED <<cmdline, hashOrder, shellsplit, shellgraph>>

NextShell ==
    \/ ShellSplitNew
    \/ ConvertIntoShellGraph
    \/ ConvertIntoProgram

SpecShell == InitShell /\ [][NextShell]_vars

-----------------------------------------------------------------------------
(***************************************************************************)
(* Properties of the frontend.                                             *)
(***************************************************************************)
PipesOf(streams, a, b) ==
    {i \in DOMAIN streams :
        streams[i].kind = "Pipe" /\ streams[i].left = a /\ streams[i].right = b}

\* the one Pipe stream of the edge (a, b), on a's side and on b's side
EdgeHasOneStream(prog, a, b) ==
    LET outs == prog.nodes[a].stdout \o prog.nodes[a].stderr
        ins == prog.nodes[b].stdin
    IN  /\ Cardinality(PipesOf(outs, a, b)) = 1
        /\ Cardinality(PipesOf(ins, a, b)) = 1
        /\ LET p == outs[CHOOSE i \in PipesOf(outs, a, b) : TRUE]
           IN  /\ p.io \in {"Stdout", "Stderr"}
               /\ Occurrences(prog.nodes[a].stdout, p) = (IF p.io = "Stdout" THEN 1 ELSE 0)
               /\ Occurrences(prog.nodes[a].stderr, p) = (IF p.io = "Stderr" THEN 1 ELSE 0)
               /\ Occurrences(ins, p) = 1

StreamsHaveEdges(prog, n) ==
    LET elem == prog.nodes[n]
        outs == elem.stdout \o elem.stderr
    IN  /\ \A i \in DOMAIN elem.stdin :
              elem.stdin[i].kind = "Pipe" =>
                  /\ elem.stdin[i].right = n
                  /\ <<elem.stdin[i].left, n>> \in prog.edges
        /\ \A i \in DOMAIN outs :
              outs[i].kind = "Pipe" =>
                  /\ outs[i].left = n
                  /\ <<n, outs[i].right>> \in prog.edges

\* C8: every Program convert_into_program returns satisfies the edge-stream
\* isomorphism: every edge (a, b) has exactly one Pipe stream (a, b, io), held
\* in a's stdout or stderr list according to io and in b's stdin list, and
\* every Pipe stream a node holds is an edge of the graph.
C8_EdgeStreamIsomorphism ==
    stage = "program" =>
        LET prog == program.val
        IN  /\ \A e \in prog.edges :
                  /\ e[1] \in DOMAIN prog.nodes
                  /\ e[2] \in DOMAIN prog.nodes
                  /\ EdgeHasOneStream(prog, e[1], e[2])
            /\ \A n \in DOMAIN prog.nodes : StreamsHaveEdges(prog, n)

\* a program with a pipe between two commands, a read node, and a stderr
\* redirection into a file
C8_Witness ==
    /\ stage = "program"
    /\ LET prog == program.val
       IN  /\ \E e \in prog.edges :
                 prog.nodes[e[1]].kind = "Cmd" /\ prog.nodes[e[2]].kind = "Cmd"
           /\ \E e \in prog.edges : prog.nodes[e[1]].kind = "Read"
           /\ \E e \in prog.edges :
                 /\ prog.nodes[e[2]].kind = "Write"
                 /\ prog.nodes[e[2]].stdout[1].kind = "File"
                 /\ prog.nodes[e[2]].stdin[1].io = "Stderr"

\* the node of the graph whose SubCommand starts with the word
Holders(g, word) ==
    {id \in DOMAIN g.nodes : g.nodes[id] # <<>> /\ g.nodes[id][1] = Str(word)}

LinksBetween(g, lefts, rights) ==
    {j \in DOMAIN g.edges : g.edges[j].left \in lefts /\ g.edges[j].right \in rights}

\* C9: for top-level segments S1 | ... | Sn the ShellGraph has, for every
\* i < n, exactly one link from the node holding Si's own command words to the
\* node holding S(i+1)'s own command words, also when S(i+1) contains a process
\* substitution: its inner command is linked only as an input of S(i+1).
C9_LinksOwnCommandNodes ==
    stage \in {"graph", "program"} =>
        LET g == shellgraph.val
        IN  \A k \in 1..Len(cmdline) :
                LET own == Holders(g, Word("c", k))
                    next == Holders(g, Word("c", k + 1))
                    inner == Holders(g, Word("s", k + 1)) \cup Holders(g, Word("t", k + 1))
                IN  (own # {} /\ next # {}) =>
                        /\ Cardinality(LinksBetween(g, own, next)) = 1
                        /\ LinksBetween(g, own, inner) = {}

\* what convert_into_program did to the node n of the merged program for the
\* stream list io ("Stdout" or "Stderr")
Terminators(final, merged, n, io) ==
    {w \in DOMAIN final.nodes \ DOMAIN merged.nodes :
        /\ final.nodes[w].kind = "Write"
        /\ final.nodes[w].stdin = <<PipeStream(n, w, io)>>
        /\ final.nodes[w].stdout = <<IF io = "Stdout" THEN StdoutStream ELSE StderrStream>>
        /\ <<n, w>> \in final.edges}

Terminated(final, merged, n, io) ==
    LET before == IF io = "Stdout" THEN merged.nodes[n].stdout ELSE merged.nodes[n].stderr
        after == IF io = "Stdout" THEN final.nodes[n].stdout ELSE final.nodes[n].stderr
        added == Terminators(final, merged, n, io)
    IN  /\ Len(after) >= 1
        /\ IF before = <<>>
           THEN /\ Cardinality(added) = 1
                /\ after = <<PipeStream(n, CHOOSE w \in added : TRUE, io)>>
           ELSE added = {} /\ after = before

\* C10: in every Program convert_into_program returns every command node has
\* at least one stdout and one stderr stream: a command node whose stdout
\* (stderr) list is empty after merging gets exactly one new WriteNode with
\* output Stdout (Stderr), joined by a Pipe edge of that IO type; one that has
\* a stream gets none; read and write nodes never get a terminator.
C10_TerminatorsForCommandNodes ==
    stage = "program" =>
        LET final == program.val
            merged == get_program_without_output_nodes(shellgraph.val, hashOrder).val
            new == DOMAIN final.nodes \ DOMAIN merged.nodes
        IN  /\ DOMAIN merged.nodes \subseteq DOMAIN final.nodes
            /\ \A n \in DOMAIN merged.nodes :
                  IF merged.nodes[n].kind = "Cmd"
                  THEN /\ final.nodes[n].kind = "Cmd"
                       /\ Terminated(final, merged, n, "Stdout")
                       /\ Terminated(final, merged, n, "Stderr")
                  ELSE /\ final.nodes[n] = merged.nodes[n]
                       /\ \A w \in new : <<n, w>> \notin final.edges
            /\ \A w \in new :
                  \E n \in DOMAIN merged.nodes :
                      /\ merged.nodes[n].kind = "Cmd"
                      /\ w \in Terminators(final, merged, n, "Stdout")
                               \cup Terminators(final, merged, n, "Stderr")

\* a program in which one command got both terminators, another only the
\* stderr one, next to a read and a write node
C10_Witness ==
    /\ stage = "program"
    /\ LET final == program.val
           merged == get_program_without_output_nodes(shellgraph.val, hashOrder).val
           cmds == {n \in DOMAIN merged.nodes : merged.nodes[n].kind = "Cmd"}
       IN  /\ \E n \in cmds : merged.nodes[n].stdout = <<>> /\ merged.nodes[n].stderr = <<>>
           /\ \E n \in cmds : merged.nodes[n].stdout # <<>> /\ merged.nodes[n].stderr = <<>>
           /\ \E n \in cmds : merged.nodes[n].stderr # <<>>
           /\ \E n \in DOMAIN merged.nodes : merged.nodes[n].kind = "Read"
           /\ \E n \in DOMAIN merged.nodes : merged.nodes[n].kind = "Write"
           /\ Cardinality(DOMAIN final.nodes) > Cardinality(DOMAIN merged.nodes)

-----------------------------------------------------------------------------
(***************************************************************************)
(* SpecMerge: two ShellGraphs are built with add_node and add_link, as     *)
(* get_subgraph and merge build them, and then the one is merged into the  *)
(* other with a connection link of the caller's choice.                    *)
(***************************************************************************)
MaxGraphNodes == 2

\* the SubCommand of the node add_node gives the id `id`
NodeCmd(letter, id) == <<Str(Word(letter, id))>>

ConnectionLinks ==
    {NoLink} \cup {SomeLink(l, r, is_input) :
                      l \in 0..MaxGraphNodes, r \in 0..MaxGraphNodes, is_input \in BOOLEAN}

\* ShellGraph::merge 475-487: self as merge leaves it when it bails at the
\* connection link
merge_added(self, incoming, order) ==
    LET added == merge_nodes(self, incoming, KeysInOrder(DOMAIN incoming.nodes, order), <<>>)
    IN  merge_links(added.g, incoming.edges, added.id_map)

InitMerge ==
    /\ RtIdle
    /\ WnIdle
    /\ VzIdle /\ NdIdle /\ StIdle
    /\ cmdline = <<>> /\ stage = "idle"
    /\ shellsplit = <<>> /\ shellgraph = <<>> /\ program = <<>>
    /\ hashOrder \in {"asc", "desc"}
    /\ mrecv = ShellGraph_default
    /\ mother = ShellGraph_default
    /\ mlink = NoLink
    /\ mbefore = ShellGraph_default
    /\ mres = "building"

CanAddNode(g) == g.counter < MaxGraphNodes

CanAddLink(g, left, right) ==
    /\ Len(g.edges) + 1 < g.counter
    /\ left \in DOMAIN g.nodes
    /\ right \in DOMAIN g.nodes
    /\ left # right

\* ShellGraph::add_node on the receiver
AddNodeSelf ==
    /\ mres = "building"
    /\ CanAddNode(mrecv)
    /\ mrecv' = add_node(mrecv, NodeCmd("g", mrecv.counter))
    /\ UNCHANGED <<rtVars, wnVars, shVars, vzVars, ndVars, stVars, mother, mlink, mbefore, mres>>

\* ShellGraph::add_node on the incoming graph
AddNodeOther ==
    /\ mres = "building"
    /\ CanAddNode(mother)
    /\ mother' = add_node(mother, NodeCmd("h", mother.counter))
    /\ UNCHANGED <<rtVars, wnVars, shVars, vzVars, ndVars, stVars, mrecv, mlink, mbefore, mres>>

\* ShellGraph::add_link on the receiver
AddLinkSelf ==
    /\ mres = "building"
    /\ \E left \in 0..MaxGraphNodes, right \in 0..MaxGraphNodes :
          /\ CanAddLink(mrecv, left, right)
          /\ mrecv' = add_link(mrecv, left, right)
    /\ UNCHANGED <<rtVars, wnVars, shVars, vzVars, ndVars, stVars, mother, mlink, mbefore, mres>>

\* ShellGraph::add_link on the incoming graph
AddLinkOther ==
    /\ mres = "building"
    /\ \E left \in 0..MaxGraphNodes, right \in 0..MaxGraphNodes :
          /\ CanAddLink(mother, left, right)
          /\ mother' = add_link(mother, left, right)
    /\ UNCHANGED <<rtVars, wnVars, shVars, vzVars, ndVars, stVars, mrecv, mlink, mbefore, mres>>

\* ShellGraph::merge 469-517
Merge ==
    /\ mres = "building"
    /\ \E connection_link \in ConnectionLinks :
          LET returned == merge(mrecv, mother, connection_link, hashOrder)
          IN  /\ mlink' = connection_link
              /\ mbefore' = mrecv
              /\ mres' = returned.res
              /\ mrecv' = IF returned.res = "ok" THEN returned.val
                          ELSE merge_added(mrecv, mother, hashOrder)
    /\ UNCHANGED <<rtVars, wnVars, shVars, vzVars, ndVars, stVars, mother>>

NextMerge ==
    \/ AddNodeSelf
    \/ AddNodeOther
    \/ AddLinkSelf
    \/ AddLinkOther
    \/ Merge

SpecMerge == InitMerge /\ [][NextMerge]_vars

\* the links of the incoming graph, renamed through an id mapping
Renamed(links, id_map) ==
    [j \in DOMAIN links |-> ShellLink(id_map[links[j].left], id_map[links[j].right])]

\* C11: a successful merge of H into G adds exactly |H.nodes| nodes, each
\* under an id that was no node id of G, adds every edge of H with both ends
\* renamed through the same id mapping, adds exactly one further edge when a
\* connection link is supplied and none otherwise, and leaves the nodes and
\* edges G had unchanged.
C11_MergeAddsRenamedCopy ==
    mres = "ok" =>
        LET G == mbefore
            H == mother
            new == DOMAIN mrecv.nodes \ DOMAIN G.nodes
        IN  /\ DOMAIN G.nodes \subseteq DOMAIN mrecv.nodes
            /\ \A n \in DOMAIN G.nodes : mrecv.nodes[n] = G.nodes[n]
            /\ Cardinality(new) = Cardinality(DOMAIN H.nodes)
            /\ Len(mrecv.edges) = Len(G.edges) + Len(H.edges) + (IF mlink.some THEN 1 ELSE 0)
            /\ SubSeq(mrecv.edges, 1, Len(G.edges)) = G.edges
            /\ \E id_map \in [DOMAIN H.nodes -> new] :
                  /\ \A a \in DOMAIN H.nodes, b \in DOMAIN H.nodes :
                        a # b => id_map[a] # id_map[b]
                  /\ \A h \in DOMAIN H.nodes : mrecv.nodes[id_map[h]] = H.nodes[h]
                  /\ SubSeq(mrecv.edges, Len(G.edges) + 1, Len(G.edges) + Len(H.edges))
                        = Renamed(H.edges, id_map)

\* a merge with a connection link of two graphs that each have an edge
C11_Witness ==
    /\ mres = "ok"
    /\ mlink.some
    /\ mbefore.edges # <<>>
    /\ mother.edges # <<>>

\* C12: merge with a connection link returns an error whenever the endpoint
\* the link claims on the receiver's side is not a node of the receiver as it
\* was before the merge, or the endpoint it claims on the incoming side is not
\* a node of the incoming graph.
C12_MergeRejectsAbsentEndpoints ==
    (mres \in {"ok", "err"} /\ mlink.some) =>
        LET on_receiver == IF mlink.is_input THEN mlink.link.right ELSE mlink.link.left
            on_incoming == IF mlink.is_input THEN mlink.link.left ELSE mlink.link.right
        IN  (on_receiver \notin DOMAIN mbefore.nodes \/ on_incoming \notin DOMAIN mother.nodes)
                => mres = "err"

-----------------------------------------------------------------------------
(***************************************************************************)
(* Properties of the frontend on the shape of the command line.            *)
(***************************************************************************)
RedirectOperators == {"<", ">", ">>", "2>"}

\* token i lies after a "<(" that no ")" has closed yet
InsideSubstitution(tokens, i) ==
    \E j \in 1..(i - 1) :
        tokens[j] = "<(" /\ \A k \in (j + 1)..(i - 1) : tokens[k] # ")"

EveryParenClosed(tokens) ==
    \A i \in 1..Len(tokens) :
        tokens[i] = "<(" => \E j \in (i + 1)..Len(tokens) : tokens[j] = ")"

NestedSubstitution(tokens) ==
    \E i \in 1..Len(tokens) : tokens[i] = "<(" /\ InsideSubstitution(tokens, i)

\* the operator at i is the last token of its segment or is followed by
\* another operator
OperatorWithoutFilename(tokens, i) ==
    /\ tokens[i] \in RedirectOperators
    /\ \/ i = Len(tokens)
       \/ tokens[i + 1] \in RedirectOperators \cup {"|"}
       \/ tokens[i + 1] = ")" /\ InsideSubstitution(tokens, i + 1)

\* the operator at i is followed by a word
OperatorWithFilename(tokens, i) ==
    /\ i < Len(tokens)
    /\ tokens[i + 1] \notin RedirectOperators \cup {"|", "<("}
    /\ ~(tokens[i + 1] = ")" /\ InsideSubstitution(tokens, i + 1))

NoPanic == shellgraph.res # "panic" /\ program.res # "panic"

\* C13 as stated: parsing is total (a Program, no error, no panic) for every
\* command line in which every "<(" is closed by a ")" and no "<(" is nested.
C13_TotalWithoutNesting ==
    (EveryParenClosed(cmdline) /\ ~NestedSubstitution(cmdline)) =>
        stage # "failed" /\ NoPanic

\* C13, amended: parsing is total for every command line in which every "<("
\* is closed by a ")", no "<(" is nested, and every redirection operator is
\* followed in its segment by a filename word.
C13_TotalOnWellFormed ==
    (/\ EveryParenClosed(cmdline)
     /\ ~NestedSubstitution(cmdline)
     /\ \A i \in 1..Len(cmdline) :
           cmdline[i] \in RedirectOperators => OperatorWithFilename(cmdline, i))
        => stage # "failed" /\ NoPanic

\* a Program for a command with two process substitutions, a pipe inside a
\* substitution, and a stdout and a stderr redirection
C13_Witness ==
    /\ stage = "program"
    /\ program.res = "ok"
    /\ Cardinality({i \in 1..Len(cmdline) : cmdline[i] = "<("}) >= 2
    /\ \E i \in 1..Len(cmdline) : cmdline[i] = "|" /\ InsideSubstitution(cmdline, i)
    /\ \E i \in 1..Len(cmdline) : cmdline[i] = ">"
    /\ \E i \in 1..Len(cmdline) : cmdline[i] = "2>"

\* C14: ShellSplit::new returns an error, and no element list, for every
\* token sequence in which some "<(" is not followed by a later ")".
C14_UnclosedParensIsAnError ==
    (stage # "start" /\ ~EveryParenClosed(cmdline)) =>
        shellsplit = Err /\ stage = "failed"

\* an error for a command whose first "<(" is closed and whose second is not
C14_Witness ==
    /\ stage = "failed"
    /\ shellsplit.res = "err"
    /\ ~EveryParenClosed(cmdline)
    /\ \E i \in 1..Len(cmdline) : cmdline[i] = ")"

\* C15: a "<(" inside an already open "<( ... )" is rejected: the frontend
\* returns an error and no Program.
C15_NestedSubstitutionRejected ==
    NestedSubstitution(cmdline) => stage # "program"

\* C16: parse_command returns an error for an empty command line (no tokens)
\* and produces no Program for it.
C16_EmptyCommandIsAnError ==
    cmdline = <<>> => stage # "program"

\* the token lists between the pipes that are not inside a substitution
RECURSIVE TopSegments(_, _, _)
TopSegments(tokens, i, part) ==
    IF i > Len(tokens) THEN {part}
    ELSE IF tokens[i] = "|" /\ ~InsideSubstitution(tokens, i)
    THEN {part} \cup TopSegments(tokens, i + 1, <<>>)
    ELSE TopSegments(tokens, i + 1, Append(part, tokens[i]))

\* redirect operators, each with its filename, and no other word
OnlyRedirections(segment) ==
    /\ Len(segment) > 0
    /\ Len(segment) % 2 = 0
    /\ \A k \in 1..Len(segment) :
          IF k % 2 = 1 THEN segment[k] \in RedirectOperators
          ELSE segment[k] \notin RedirectOperators \cup {"|", "<(", ")"}

\* C17: parse_command returns an error for a command whose pipe segment has
\* redirect operators with filenames but no word to serve as the command name.
C17_OnlyRedirectionsIsAnError ==
    (\E segment \in TopSegments(cmdline, 1, <<>>) : OnlyRedirections(segment))
        => stage # "program"

\* C18: parse_command returns an error for every command in which a redirect
\* operator (>, >>, 2> or <) is not followed, in its pipe segment, by a
\* filename word: it is the last token of the segment or another operator
\* follows it.
C18_OperatorWithoutFilenameIsAnError ==
    (\E i \in 1..Len(cmdline) : OperatorWithoutFilename(cmdline, i)) =>
        stage # "program" /\ NoPanic

\* the error of generate_subprogram for an operator that ends a process
\* substitution, and the error for an operator followed by an operator
C18_Witness ==
    /\ stage = "failed"
    /\ shellsplit.res = "ok"
    /\ shellgraph.res = "ok"
    /\ program.res = "err"
    /\ \E i \in 1..(Len(cmdline) - 1) :
          /\ OperatorWithoutFilename(cmdline, i)
          /\ cmdline[i + 1] = ")"
    /\ \E i \in 1..(Len(cmdline) - 1) :
          /\ OperatorWithoutFilename(cmdline, i)
          /\ cmdline[i + 1] \in RedirectOperators

\* the command of the specification's example
ExampleCommand ==
    <<"grep", "foo", "<(", "cat", "bar", ")", "|", "wc", ">", "out.txt", "2>", "err.txt">>

CommandNodes(prog, name) ==
    {n \in DOMAIN prog.nodes : prog.nodes[n].kind = "Cmd" /\ prog.nodes[n].name = name}

FileWriters(prog, filename) ==
    {n \in DOMAIN prog.nodes :
        /\ prog.nodes[n].kind = "Write"
        /\ Len(prog.nodes[n].stdout) = 1
        /\ prog.nodes[n].stdout[1].kind = "File"
        /\ prog.nodes[n].stdout[1].name = filename}

StderrWriters(prog) ==
    {n \in DOMAIN prog.nodes :
        prog.nodes[n].kind = "Write" /\ prog.nodes[n].stdout = <<StderrStream>>}

\* the four edges of the example: cat into grep's stdin, grep to wc, wc's
\* stdout to the writer of out.txt, wc's stderr to the writer of err.txt
ExampleEdges(prog, cat, grep, wc, out, err) ==
    /\ PipeStream(cat, grep, "Stdout") \in {prog.nodes[grep].stdin[i] :
                                               i \in DOMAIN prog.nodes[grep].stdin}
    /\ prog.nodes[grep].stdout = <<PipeStream(grep, wc, "Stdout")>>
    /\ prog.nodes[wc].stdout = <<PipeStream(wc, out, "Stdout")>>
    /\ prog.nodes[wc].stderr = <<PipeStream(wc, err, "Stderr")>>

\* C19 as stated: for `grep foo <( cat bar ) | wc > out.txt 2> err.txt` the
\* lowered Program has exactly four edges: cat into grep's stdin, grep to wc,
\* wc's stdout to the WriteNode for out.txt, wc's stderr to the WriteNode for
\* err.txt.
C19_ExampleHasFourEdges ==
    (cmdline = ExampleCommand /\ stage = "program") =>
        LET prog == program.val
        IN  \E cat \in CommandNodes(prog, "cat"), grep \in CommandNodes(prog, "grep"),
               wc \in CommandNodes(prog, "wc"), out \in FileWriters(prog, "out.txt"),
               err \in FileWriters(prog, "err.txt") :
                /\ ExampleEdges(prog, cat, grep, wc, out, err)
                /\ prog.edges = {<<cat, grep>>, <<grep, wc>>, <<wc, out>>, <<wc, err>>}

\* C19, amended: the lowered Program of the example has exactly six edges: the
\* four of the statement, and a Stderr pipe from cat and from grep, each to a
\* WriteNode of its own whose output is Stderr.
C19_ExampleHasSixEdges ==
    (cmdline = ExampleCommand /\ stage = "program") =>
        LET prog == program.val
        IN  \E cat \in CommandNodes(prog, "cat"), grep \in CommandNodes(prog, "grep"),
               wc \in CommandNodes(prog, "wc"), out \in FileWriters(prog, "out.txt"),
               err \in FileWriters(prog, "err.txt"),
               cat_err \in StderrWriters(prog), grep_err \in StderrWriters(prog) :
                /\ ExampleEdges(prog, cat, grep, wc, out, err)
                /\ cat_err # grep_err
                /\ prog.nodes[cat].stderr = <<PipeStream(cat, cat_err, "Stderr")>>
                /\ prog.nodes[grep].stderr = <<PipeStream(grep, grep_err, "Stderr")>>
                /\ prog.edges = {<<cat, grep>>, <<grep, wc>>, <<wc, out>>, <<wc, err>>,
                                 <<cat, cat_err>>, <<grep, grep_err>>}
                /\ Cardinality(prog.edges) = 6

C19_Witness ==
    /\ cmdline = ExampleCommand
    /\ stage = "program"
    /\ Cardinality(DOMAIN program.val.nodes) = 7

\* the word is the filename of the operator somewhere on the command line
FilenameOf(tokens, operator, word) ==
    \E i \in 1..(Len(tokens) - 1) : tokens[i] = operator /\ tokens[i + 1] = word

FileOutputs(prog) ==
    {prog.nodes[n].stdout[1] :
        n \in {w \in DOMAIN prog.nodes :
                  /\ prog.nodes[w].kind = "Write"
                  /\ prog.nodes[w].stdout # <<>>
                  /\ prog.nodes[w].stdout[1].kind = "File"}}

FileInputs(prog) ==
    {prog.nodes[n].stdin[1] : n \in {r \in DOMAIN prog.nodes : prog.nodes[r].kind = "Read"}}

\* C20: lowering gives each redirection a file stream at the client with the
\* mode of its operator: `< f` a ReadNode with input File(f, Client, READ),
\* `> f` and `2> f` a WriteNode with the single output File(f, Client, WRITE),
\* `>> f` a WriteNode with the single output File(f, Client, APPEND); the
\* streams made for `< f` and for `> f` differ in mode.
C20_FileModesFollowOperators ==
    stage = "program" =>
        LET prog == program.val
        IN  /\ \A input \in FileInputs(prog) :
                  /\ input = FileStream(input.name, Client, "READ")
                  /\ FilenameOf(cmdline, "<", input.name)
            /\ \A n \in DOMAIN prog.nodes :
                  (prog.nodes[n].kind = "Write" /\ prog.nodes[n].stdout[1].kind = "File")
                      => Len(prog.nodes[n].stdout) = 1
            /\ \A output \in FileOutputs(prog) :
                  \/ /\ output = FileStream(output.name, Client, "WRITE")
                     /\ \/ FilenameOf(cmdline, ">", output.name)
                        \/ FilenameOf(cmdline, "2>", output.name)
                  \/ /\ output = FileStream(output.name, Client, "APPEND")
                     /\ FilenameOf(cmdline, ">>", output.name)
            /\ \A input \in FileInputs(prog), output \in FileOutputs(prog) :
                  input.mode # output.mode

-----------------------------------------------------------------------------
(***************************************************************************)
(* Degrees and cycles of the lowered program.                              *)
(***************************************************************************)
KindEdges(prog, left_kind, right_kind) ==
    {e \in prog.edges :
        prog.nodes[e[1]].kind = left_kind /\ prog.nodes[e[2]].kind = right_kind}

\* the distinct links of a ShellGraph
LinkPairs(g) == {<<g.edges[j].left, g.edges[j].right>> : j \in DOMAIN g.edges}

\* C21: in every Program convert_into_program returns no edge ends in a
\* ReadNode and no edge starts from a WriteNode: every edge runs from a read
\* node into a command node, from a command node into a write node, or between
\* two command nodes, and the edges between two command nodes are the ones
\* made for the pipe links of the ShellGraph, one for each link.
C21_ReadNodesFirstWriteNodesLast ==
    stage = "program" =>
        LET prog == program.val
        IN  /\ \A e \in prog.edges :
                  /\ prog.nodes[e[2]].kind # "Read"
                  /\ prog.nodes[e[1]].kind # "Write"
            /\ prog.edges = KindEdges(prog, "Read", "Cmd") \cup KindEdges(prog, "Cmd", "Write")
                                \cup KindEdges(prog, "Cmd", "Cmd")
            /\ Cardinality(KindEdges(prog, "Cmd", "Cmd")) = Cardinality(LinkPairs(shellgraph.val))

\* a program with a read node, a file write node, and two pipe links
C21_Witness ==
    /\ stage = "program"
    /\ LET prog == program.val
       IN  /\ KindEdges(prog, "Read", "Cmd") # {}
           /\ \E e \in KindEdges(prog, "Cmd", "Write") : prog.nodes[e[2]].stdout[1].kind = "File"
           /\ Cardinality(KindEdges(prog, "Cmd", "Cmd")) >= 2
           /\ Len(shellgraph.val.edges) >= 2

\* what is left of a graph after the nodes without an incoming edge are taken
\* away, again and again: the nodes that lie on a cycle or behind one
RECURSIVE OnOrBehindCycle(_, _)
OnOrBehindCycle(ids, pairs) ==
    LET inside == {e \in pairs : e[1] \in ids /\ e[2] \in ids}
        sources == {n \in ids : \A e \in inside : e[2] # n}
    IN  IF sources = {} THEN ids ELSE OnOrBehindCycle(ids \ sources, inside)

Acyclic(ids, pairs) == OnOrBehindCycle(ids, pairs) = {}

\* C22: every ShellGraph convert_into_shell_graph returns is acyclic, and so
\* is every Program convert_into_program lowers from it: no sequence of edges
\* leads from a node back to itself.
C22_GraphsAreAcyclic ==
    /\ stage \in {"graph", "program"} =>
          LET g == shellgraph.val
          IN  /\ \A pair \in LinkPairs(g) : pair[1] \in DOMAIN g.nodes /\ pair[2] \in DOMAIN g.nodes
              /\ Acyclic(DOMAIN g.nodes, LinkPairs(g))
    /\ stage = "program" => Acyclic(DOMAIN program.val.nodes, program.val.edges)

\* a program lowered from a graph with a path of three links
C22_Witness ==
    /\ stage = "program"
    /\ LET pairs == LinkPairs(shellgraph.val)
       IN  \E a \in pairs, b \in pairs, c \in pairs : a[2] = b[1] /\ b[2] = c[1]
    /\ Cardinality(program.val.edges) >= 6

-----------------------------------------------------------------------------
(***************************************************************************)
(* SpecViz: the visualization binary, viz2.rs.  main parses its arguments  *)
(* and calls run_viz once for each of its eleven commands; run_viz logs    *)
(* the error of a failed visualization and returns.  A Shell visualization *)
(* parses the command with ShellSplit::new and convert_into_shell_graph;   *)
(* a Dash visualization plans it with the interpreter, whose source is not *)
(* part of the files modelled and which may fail.  Writing the dot file    *)
(* and running graphviz succeed or fail with the environment.              *)
(***************************************************************************)
\* the run_viz calls of main, 46-127; the command is kept for the Shell ones
VizCalls ==
    LET rt_cmd1 == <<"cat", "/d/c/b/1.INFO", "|", "grep", "[RAY]", "|", "head", "-n1", "|",
                     "cut", "-c", "7-", ">", "/d/c/b/rays.csv">>
        distributed_cat == <<"cat", "/d/c/foo", "/b/a/foo", "/e/d/foo", "/f/e/foo", "|",
                             "grep", "bar", ">", "/local/local.txt">>
    IN  << [viztype |-> "Shell", name |-> "rt_cmd1", command |-> rt_cmd1],
           [viztype |-> "Dash", name |-> "rt_cmd1", command |-> <<>>],
           [viztype |-> "Dash", name |-> "rt_cmd2", command |-> <<>>],
           [viztype |-> "Dash", name |-> "portscan_preprocess", command |-> <<>>],
           [viztype |-> "Dash", name |-> "port_scan_cmd", command |-> <<>>],
           [viztype |-> "Shell", name |-> "distributed_cat", command |-> distributed_cat],
           [viztype |-> "Dash", name |-> "distributed_cat", command |-> <<>>],
           [viztype |-> "Dash", name |-> "git_clone", command |-> <<>>],
           [viztype |-> "Dash", name |-> "git_commit", command |-> <<>>],
           [viztype |-> "Dash", name |-> "cat_wildcard", command |-> <<>>],
           [viztype |-> "Dash", name |-> "comm_basic", command |-> <<>>] >>

\* visualize_shell_graph 161-162: "ok", "err" or "panic"
shell_graph_of(command) ==
    LET split == ShellSplit_new(command)
    IN  IF split.res # "ok" THEN split.res
        ELSE convert_into_shell_graph(split.val, "asc").res

\* visualize_dash_graph 183-190: parse_command_line returns Ok(Some(prog)),
\* Ok(None) or an error
PlanOutcomes == {"some", "none", "err"}

InitViz ==
    /\ RtIdle /\ WnIdle /\ ShIdle /\ MgIdle /\ NdIdle /\ StIdle
    /\ vizstage = "args"
    /\ vizidx = 1
    /\ vizparse = 0
    /\ vizout = 0
    /\ vizexit = 0

\* main 35: Opt::from_args exits with status 1 when the arguments are wrong
FromArgs ==
    /\ vizstage = "args"
    /\ \E args_ok \in BOOLEAN :
          IF args_ok THEN vizstage' = "calls" /\ vizexit' = vizexit
          ELSE vizstage' = "exited" /\ vizexit' = 1
    /\ UNCHANGED <<rtVars, wnVars, shVars, mgVars, ndVars, stVars, vizidx, vizparse, vizout>>

\* what run_viz (130-145) does with the Result of the visualization: an error
\* is logged and run_viz returns; a panic ends the process with status 101
RunViz(parsed, written) ==
    IF parsed = "panic"
    THEN /\ vizstage' = "exited" /\ vizexit' = 101
         /\ UNCHANGED <<vizidx, vizparse, vizout>>
    ELSE /\ vizidx' = vizidx + 1
         /\ vizparse' = IF parsed = "ok" THEN vizparse ELSE vizparse + 1
         /\ vizout' = IF parsed = "ok" /\ ~written THEN vizout + 1 ELSE vizout
         /\ UNCHANGED <<vizstage, vizexit>>

\* run_viz with VizType::Shell: visualize_shell_graph 147-167
RunVizShell ==
    /\ vizstage = "calls"
    /\ vizidx <= Len(VizCalls)
    /\ VizCalls[vizidx].viztype = "Shell"
    /\ \E written \in BOOLEAN : RunViz(shell_graph_of(VizCalls[vizidx].command), written)
    /\ UNCHANGED <<rtVars, wnVars, shVars, mgVars, ndVars, stVars>>

\* run_viz with VizType::Dash: visualize_dash_graph 169-195
RunVizDash ==
    /\ vizstage = "calls"
    /\ vizidx <= Len(VizCalls)
    /\ VizCalls[vizidx].viztype = "Dash"
    /\ \E planned \in PlanOutcomes, written \in BOOLEAN :
          RunViz(IF planned = "some" THEN "ok" ELSE "err", written)
    /\ UNCHANGED <<rtVars, wnVars, shVars, mgVars, ndVars, stVars>>

\* main 128: main returns, the process exits with status 0
MainReturn ==
    /\ vizstage = "calls"
    /\ vizidx > Len(VizCalls)
    /\ vizstage' = "exited"
    /\ vizexit' = 0
    /\ UNCHANGED <<rtVars, wnVars, shVars, mgVars, ndVars, stVars, vizidx, vizparse, vizout>>

NextViz ==
    \/ FromArgs
    \/ RunVizShell
    \/ RunVizDash
    \/ MainReturn

SpecViz == InitViz /\ [][NextViz]_vars

\* C23: the binary exits with status 0 only when every command was parsed and
\* planned successfully; when parsing or planning of a command has failed it
\* exits with a non-zero status.
C23_ExitStatusReportsFailure ==
    vizstage = "exited" =>
        /\ vizexit = 0 => (vizidx > Len(VizCalls) /\ vizparse = 0)
        /\ vizparse > 0 => vizexit # 0

-----------------------------------------------------------------------------
(***************************************************************************)
(* SpecNode: calls on one ReadNode (node 1) and one WriteNode (node 2):    *)
(* WriteNode::add_stdout (write.rs), ReadNode::replace_pipe_with_net and   *)
(* ReadNode::redirect (read2.rs), in any order and with any arguments.     *)
(***************************************************************************)
\* WriteNode::add_stdout 60-68: the Result and the node as the call leaves it
WriteNode_add_stdout(self, stream) ==
    IF stream.kind = "File"
    THEN [res |-> "ok", val |-> [self EXCEPT !.output = Append(@, stream)]]
    ELSE [res |-> "err", val |-> self]

\* ReadNode::replace_pipe_with_net 117-141
ReadNode_replace_pipe_with_net(self, pipe, net, iotype) ==
    IF iotype = "Stdout"
    THEN IF self.stdout.kind = "Pipe" /\ self.stdout = pipe
         THEN [res |-> "ok", val |-> [self EXCEPT !.stdout = net]]
         ELSE [res |-> "err", val |-> self]
    ELSE [res |-> "ok", val |-> self]

\* the streams the calls are made with: two pipes out of the read node, the
\* NetStreams that take their place, and the three other kinds
NodeStreams ==
    [Pipe |-> {PipeStream(1, 2, "Stdout"), PipeStream(1, 3, "Stdout")},
     Tcp |-> {NetStream(1, 2, "Stdout", Client, Server(1)),
              NetStream(1, 3, "Stdout", Client, Server(1))},
     Other |-> {FileStream("out", Client, "WRITE"), StdoutStream, StderrStream}]

InitNode ==
    /\ RtIdle /\ WnIdle /\ ShIdle /\ MgIdle /\ VzIdle /\ StIdle
    /\ \E stdout \in NodeStreams.Pipe \cup NodeStreams.Tcp \cup NodeStreams.Other :
          nd_read = [node_id |-> 1, stdout |-> stdout]
    /\ nd_write = [node_id |-> 2, stdin |-> <<>>, output |-> <<>>]
    /\ \E p \in SUBSET {HandleIdentifier(1, "Stdout"), HandleIdentifier(2, "Stdout")},
          n \in SUBSET NodeStreams.Tcp :
          nd_maps = [pipes |-> p, net |-> n]
    /\ nd_call = [name |-> "none", stream |-> StdoutStream, pipe |-> StdoutStream,
                  net |-> StdoutStream, io |-> "", file_ok |-> TRUE]
    /\ nd_before = [read |-> nd_read, write |-> nd_write, maps |-> nd_maps]
    /\ nd_res = "none"

\* the call made, the state it was made in, and its Result
Called(call, returned) ==
    /\ nd_call' = call
    /\ nd_before' = [read |-> nd_read, write |-> nd_write, maps |-> nd_maps]
    /\ nd_res' = returned.res

\* writenode.add_stdout(stream)
AddStdout ==
    /\ nd_res # "idle"
    /\ Len(nd_write.output) < MaxOutputs
    /\ \E stream \in NodeStreams.Pipe \cup NodeStreams.Tcp \cup NodeStreams.Other :
          LET returned == WriteNode_add_stdout(nd_write, stream)
          IN  /\ Called([name |-> "add_stdout", stream |-> stream, pipe |-> StdoutStream,
                         net |-> StdoutStream, io |-> "", file_ok |-> TRUE], returned)
              /\ nd_write' = returned.val
    /\ UNCHANGED <<rtVars, wnVars, shVars, mgVars, vzVars, stVars, nd_read, nd_maps>>

\* readnode.replace_pipe_with_net(pipe, net, iotype)
ReplacePipeWithNet ==
    /\ nd_res # "idle"
    /\ \E pipe \in NodeStreams.Pipe, net \in NodeStreams.Tcp,
          iotype \in {"Stdin", "Stdout", "Stderr"} :
          LET returned == ReadNode_replace_pipe_with_net(nd_read, pipe, net, iotype)
          IN  /\ Called([name |-> "replace_pipe_with_net", stream |-> StdoutStream,
                         pipe |-> pipe, net |-> net, io |-> iotype, file_ok |-> TRUE],
                        returned)
              /\ nd_read' = returned.val
    /\ UNCHANGED <<rtVars, wnVars, shVars, mgVars, vzVars, stVars, nd_write, nd_maps>>

\* readnode.redirect(pipes, network_connections, ..)
ReadRedirect ==
    /\ nd_res # "idle"
    /\ \E file_ok \in BOOLEAN, copy_ok \in BOOLEAN :
          LET returned == ReadNode_redirect(nd_read, nd_maps.pipes, nd_maps.net, file_ok,
                                            copy_ok)
          IN  /\ Called([name |-> "redirect", stream |-> StdoutStream,
                         pipe |-> StdoutStream, net |-> StdoutStream, io |-> "",
                         file_ok |-> file_ok], returned)
              /\ nd_maps' = [pipes |-> returned.pipes, net |-> returned.net]
    /\ UNCHANGED <<rtVars, wnVars, shVars, mgVars, vzVars, stVars, nd_read, nd_write>>

NextNode ==
    \/ AddStdout
    \/ ReplacePipeWithNet
    \/ ReadRedirect

SpecNode == InitNode /\ [][NextNode]_vars

\* C24: WriteNode::add_stdout accepts a File, a Stdout and a Stderr stream and
\* appends it to the node's outputs; it rejects a Pipe or Tcp stream with an
\* error and leaves the outputs unchanged.
C24_AddStdoutAcceptsEveryOutputKind ==
    nd_call.name = "add_stdout" =>
        IF nd_call.stream.kind \in {"File", "Stdout", "Stderr"}
        THEN /\ nd_res = "ok"
             /\ nd_write.output = Append(nd_before.write.output, nd_call.stream)
        ELSE /\ nd_res = "err"
             /\ nd_write.output = nd_before.write.output


\* C25: ReadNode::replace_pipe_with_net(pipe, net, io) returns Ok only when
\* the node held Pipe(pipe) and now holds Tcp(net) in its place; in every
\* other case (the output is a different pipe or no pipe, or io names a stream
\* list the pipe is not in: a ReadNode has the stdout stream only) it returns
\* an error and leaves the node unchanged.
C25_ReplaceOkOnlyWhenReplaced ==
    nd_call.name = "replace_pipe_with_net" =>
        IF nd_call.io = "Stdout" /\ nd_before.read.stdout = nd_call.pipe
        THEN /\ nd_res = "ok"
             /\ nd_read = [nd_before.read EXCEPT !.stdout = nd_call.net]
        ELSE /\ nd_res = "err"
             /\ nd_read = nd_before.read

\* the handle of the read node's output stream: the map it is in and its key
OutputHandle(read) ==
    IF read.stdout.kind = "Tcp" THEN [map |-> "net", key |-> read.stdout]
    ELSE [map |-> "pipes", key |-> HandleIdentifier(read.node_id, read.stdout.io)]

\* C26: a successful ReadNode::redirect removes exactly one handle: for a Tcp
\* output the socket stored under that NetStream in the SharedStreamMap, for a
\* Pipe output the pipe end stored under HandleIdentifier(own node_id, the
\* pipe's io type) in the SharedPipeMap; with a File, Stdout or Stderr output
\* redirect returns an error and removes no handle from either map.
C26_RedirectRemovesOwnHandle ==
    nd_call.name = "redirect" =>
        LET stdout == nd_before.read.stdout
            handle == OutputHandle(nd_before.read)
        IN  /\ (nd_res = "ok" /\ stdout.kind = "Tcp") =>
                  /\ handle.key \in nd_before.maps.net
                  /\ nd_maps.net = nd_before.maps.net \ {handle.key}
                  /\ nd_maps.pipes = nd_before.maps.pipes
            /\ (nd_res = "ok" /\ stdout.kind = "Pipe") =>
                  /\ handle.key \in nd_before.maps.pipes
                  /\ nd_maps.pipes = nd_before.maps.pipes \ {handle.key}
                  /\ nd_maps.net = nd_before.maps.net
            /\ stdout.kind \in {"File", "Stdout", "Stderr"} =>
                  /\ nd_res = "err"
                  /\ nd_maps = nd_before.maps

\* a redirect into a pipe has succeeded with both pipe ends and a socket in
\* the maps, and has left the write node's pipe end and the socket alone
C26_Witness ==
    /\ nd_call.name = "redirect"
    /\ nd_res = "ok"
    /\ nd_before.read.stdout.kind = "Pipe"
    /\ nd_before.maps.pipes = {HandleIdentifier(1, "Stdout"), HandleIdentifier(2, "Stdout")}
    /\ nd_maps.pipes = {HandleIdentifier(2, "Stdout")}
    /\ nd_before.maps.net # {}

\* C27: whenever ReadNode::redirect returns, with Ok or with an error such as
\* a failure to open the input file, the handle of the node's Pipe or Tcp
\* output stream is no longer in the shared map.
C27_RedirectAlwaysTakesTheHandle ==
    (nd_call.name = "redirect" /\ nd_before.read.stdout.kind \in {"Pipe", "Tcp"}) =>
        LET handle == OutputHandle(nd_before.read)
        IN  IF handle.map = "net" THEN handle.key \notin nd_maps.net
            ELSE handle.key \notin nd_maps.pipes


Range(vec) == {vec[k] : k \in DOMAIN vec}

NoDuplicates(vec) == Cardinality(Range(vec)) = Len(vec)

\* sinks, front and the ids of a graph are what its nodes and edges say
EndsAreExact(g) ==
    /\ DOMAIN g.nodes = 0..(g.counter - 1)
    /\ NoDuplicates(g.sinks)
    /\ NoDuplicates(g.front)
    /\ Range(g.sinks) = {id \in DOMAIN g.nodes : \A pair \in LinkPairs(g) : pair[1] # id}
    /\ Range(g.front) = {id \in DOMAIN g.nodes : \A pair \in LinkPairs(g) : pair[2] # id}

\* C29: after any sequence of add_node, add_link and merge on a ShellGraph,
\* sinks is exactly the set of nodes with no outgoing edge and front exactly
\* the set of nodes with no incoming edge, each node listed at most once, and
\* the node ids are exactly 0 .. counter-1.
C29_SinksAndFrontAreExact == EndsAreExact(mrecv) /\ EndsAreExact(mother)

\* a merge with a connection link has returned Ok on two graphs that both had
\* a link, and the receiver has a node that is neither a sink nor in front
C29_Witness ==
    /\ mres = "ok"
    /\ mlink.some
    /\ mbefore.edges # <<>>
    /\ mother.edges # <<>>
    /\ \E id \in DOMAIN mrecv.nodes : id \notin Range(mrecv.sinks) \cup Range(mrecv.front)

-----------------------------------------------------------------------------
(***************************************************************************)
(* SpecStat: ShellClient::stat_files (new_client.rs 146-205).  One thread  *)
(* is spawned for each requested location, in the order the HashMap of     *)
(* requests yields them; the handles are joined in that order, and the     *)
(* first error ends the call.  A thread that is not joined runs on.        *)
(***************************************************************************)
size_request_thread_trusting(location, outcome) ==
    \* as size_request_thread, but the answer's failed flag is not looked at
    IF location = Client THEN "err"
    ELSE IF outcome = "io" THEN "err"
    ELSE "ok"

\* the closure of the thread, 163-185: the thread's Result.  outcome: the
\* server answers with failed = false ("sizes") or failed = true ("failed"), or
\* the connection, a write or a read fails ("io")
size_request_thread(location, outcome) ==
    IF location = Client THEN "err"
    ELSE IF outcome = "io" THEN "err"
    ELSE IF outcome = "failed" THEN "err"
    ELSE "ok"

InitStat ==
    /\ RtIdle /\ WnIdle /\ ShIdle /\ MgIdle /\ VzIdle /\ NdIdle
    /\ st_pc = "start"
    /\ \E requested \in SUBSET Locations :
          /\ st_order \in {order \in [1..Cardinality(requested) -> requested] :
                              \A i, j \in DOMAIN order : i # j => order[i] # order[j]}
          /\ st_thread = [l \in requested |-> [st |-> "none", outcome |-> "none", res |-> "none"]]
    /\ st_next = 1
    /\ st_results = {}
    /\ st_ret = [res |-> "none", map |-> {}]

\* 155-186: the for loop that spawns the threads
StatSpawn ==
    /\ st_pc = "start"
    /\ st_thread' = [l \in DOMAIN st_thread |-> [st_thread[l] EXCEPT !.st = "running"]]
    /\ st_pc' = "joining"
    /\ UNCHANGED <<rtVars, wnVars, shVars, mgVars, vzVars, ndVars, st_order, st_next,
                   st_results, st_ret>>

\* 163-185: the thread of location l runs to its end
StatThread(l) ==
    /\ st_thread[l].st = "running"
    /\ \E outcome \in {"sizes", "failed", "io"} :
          st_thread' = [st_thread EXCEPT ![l] =
                           [st |-> "done",
                            outcome |-> IF l = Client THEN "none" ELSE outcome,
                            res |-> size_request_thread(l, outcome)]]
    /\ UNCHANGED <<rtVars, wnVars, shVars, mgVars, vzVars, ndVars, st_pc, st_order, st_next,
                   st_results, st_ret>>

\* 188-202: the next handle is joined; an Ok is inserted, an error returned
StatJoin ==
    /\ st_pc = "joining"
    /\ st_next <= Len(st_order)
    /\ LET l == st_order[st_next]
       IN  /\ st_thread[l].st = "done"
           /\ IF st_thread[l].res = "ok"
              THEN /\ st_results' = st_results \cup {l}
                   /\ st_next' = st_next + 1
                   /\ UNCHANGED <<st_pc, st_ret>>
              ELSE /\ st_pc' = "returned"
                   /\ st_ret' = [res |-> "err", map |-> {}]
                   /\ UNCHANGED <<st_next, st_results>>
    /\ UNCHANGED <<rtVars, wnVars, shVars, mgVars, vzVars, ndVars, st_order, st_thread>>

\* 204: Ok(results)
StatReturn ==
    /\ st_pc = "joining"
    /\ st_next > Len(st_order)
    /\ st_pc' = "returned"
    /\ st_ret' = [res |-> "ok", map |-> st_results]
    /\ UNCHANGED <<rtVars, wnVars, shVars, mgVars, vzVars, ndVars, st_order, st_thread,
                   st_next, st_results>>

NextStat ==
    \/ StatSpawn
    \/ \E l \in Locations : l \in DOMAIN st_thread /\ StatThread(l)
    \/ StatJoin
    \/ StatReturn

SpecStat == InitStat /\ [][NextStat]_vars

\* C30: stat_files returns Ok only when every requested location is a server
\* and every server answered with failed = false, and the returned map then
\* has exactly one entry for each requested location; if a requested location
\* is Client or a server has reported failure, stat_files returns an error and
\* no partial results.
C30_StatFilesAllOrNothing ==
    st_pc = "returned" =>
        /\ st_ret.res \in {"ok", "err"}
        /\ st_ret.res = "ok" =>
              /\ \A l \in DOMAIN st_thread :
                    l # Client /\ st_thread[l].st = "done" /\ st_thread[l].outcome = "sizes"
              /\ st_ret.map = DOMAIN st_thread
        /\ (Client \in DOMAIN st_thread \/ \E l \in DOMAIN st_thread :
                                               st_thread[l].outcome = "failed") =>
              /\ st_ret.res = "err"
              /\ st_ret.map = {}
        /\ st_ret.res = "err" => st_ret.map = {}

\* stat_files has returned Ok with the sizes of every server
C30_Witness ==
    /\ st_pc = "returned"
    /\ st_ret.res = "ok"
    /\ st_ret.map = {Server(i) : i \in 1..MaxServers}

-----------------------------------------------------------------------------
\* the bytes a redirect of the write node copies: those of its stdin streams,
\* in order
RECURSIVE BytesCopied(_)
BytesCopied(j) == IF j > Len(wn.stdin) THEN <<>> ELSE StreamBytes(j) \o BytesCopied(j + 1)

\* C28: a WriteNode writes a File output according to the mode of its
\* FileStream: after a redirect into a file in WRITE mode the file's content
\* is exactly the bytes copied, and after a redirect into a file in APPEND
\* mode it is the previous content followed by the bytes copied.
C28_FileWrittenByMode ==
    (wout.res = "ok" /\ Len(wn.output) = 1 /\ wn.output[1].kind = "File") =>
        /\ wn.output[1].mode = "WRITE" => wfile.after = BytesCopied(1)
        /\ wn.output[1].mode = "APPEND" => wfile.after = wfile.before \o BytesCopied(1)

=============================================================================
